---------------------------- MODULE Spec2Model ----------------------------
(***************************************************************************)
(* A model of the juno MIPS32 virtual machine: the memory map and its      *)
(* segments (runtime/memory.rs), the register file (runtime/vm.rs), the    *)
(* decoder (runtime/decoding.rs, mips/instruction.rs), the executor        *)
(* (runtime/execution.rs) and the loop of the embedder (main.rs).          *)
(*                                                                         *)
(* A u32 is kept at its full width as four bytes, most significant first:  *)
(* <<b1, b2, b3, b4>> stands for b1*2^24 + b2*2^16 + b3*2^8 + b4.  A u64   *)
(* is eight bytes in the same order.  The addresses handed to the calls    *)
(* and the small operand fields (u8, u16) are plain integers; where the    *)
(* width of usize matters (the bounds of a segment, align_address) a usize *)
(* is eight bytes as well.  A call that depends on the build takes         *)
(* overflow_checks: TRUE for a build that panics on integer overflow (the  *)
(* debug profile), FALSE for one that wraps (the release profile).         *)
(***************************************************************************)
EXTENDS Integers, Sequences, FiniteSets, TLC

VARIABLES
    registers,  \* VM.registers : [u32; 32], indexed 0..31
    memory,     \* VM.memory : MemoryMap, a record with the Vec of segments
    pc,         \* VM.pc : usize
    hi,         \* VM.hi : u32
    lo,         \* VM.lo : u32
    paused,     \* main's local `paused`
    halted,     \* main's local `halted`
    result,     \* what the last call returned to its caller
    ncalls      \* number of calls made so far (bounds the exploration)

vars == <<registers, memory, pc, hi, lo, paused, halted, result, ncalls>>

-----------------------------------------------------------------------------
(* Fixed-width integers *)

Byte == 0..255

Zero32 == <<0, 0, 0, 0>>

\* `x as u32` for a u8 or u16 value x
u32_from(x) == <<0, 0, x \div 256, x % 256>>

\* `w as u8` for a u32 w
as_u8(w) == w[4]

\* `w as u16` for a u32 w
as_u16(w) == w[3] * 256 + w[4]

\* bit i (0 = least significant) of a u32
bit(w, i) == (w[4 - (i \div 8)] \div (2 ^ (i % 8))) % 2

\* the u32 whose bit i is f[i]
from_bits(f) ==
    LET byte(k) == f[8*k] + 2*f[8*k+1] + 4*f[8*k+2] + 8*f[8*k+3]
                   + 16*f[8*k+4] + 32*f[8*k+5] + 64*f[8*k+6] + 128*f[8*k+7]
    IN  <<byte(3), byte(2), byte(1), byte(0)>>

\* `w << n` on u32, for 0 <= n < 32
shl(w, n) == from_bits([i \in 0..31 |-> IF i >= n THEN bit(w, i - n) ELSE 0])

\* `w >> n` on u32, for 0 <= n < 32 (zero fill)
shr(w, n) == from_bits([i \in 0..31 |-> IF i + n <= 31 THEN bit(w, i + n) ELSE 0])

\* `(w as i32) >> n`, for 0 <= n < 32 (sign fill)
sar(w, n) == from_bits([i \in 0..31 |-> IF i + n <= 31 THEN bit(w, i + n) ELSE bit(w, 31)])

\* `a & b`, `a | b`, `a ^ b` on u32
bitand(a, b) == from_bits([i \in 0..31 |-> IF bit(a, i) = 1 /\ bit(b, i) = 1 THEN 1 ELSE 0])

bitor(a, b) == from_bits([i \in 0..31 |-> IF bit(a, i) = 1 \/ bit(b, i) = 1 THEN 1 ELSE 0])

bitxor(a, b) == from_bits([i \in 0..31 |-> IF bit(a, i) # bit(b, i) THEN 1 ELSE 0])

\* u32::overflowing_add: the wrapped sum and whether the unsigned sum left 32 bits
overflowing_add(a, b) ==
    LET s4 == a[4] + b[4]
        s3 == a[3] + b[3] + s4 \div 256
        s2 == a[2] + b[2] + s3 \div 256
        s1 == a[1] + b[1] + s2 \div 256
    IN  <<  <<s1 % 256, s2 % 256, s3 % 256, s4 % 256>>,  s1 >= 256  >>

\* u32::overflowing_sub: the wrapped difference and whether a < b as unsigned
overflowing_sub(a, b) ==
    LET d4 == a[4] - b[4]
        d3 == a[3] - b[3] - (IF d4 < 0 THEN 1 ELSE 0)
        d2 == a[2] - b[2] - (IF d3 < 0 THEN 1 ELSE 0)
        d1 == a[1] - b[1] - (IF d2 < 0 THEN 1 ELSE 0)
    IN  <<  <<d1 % 256, d2 % 256, d3 % 256, d4 % 256>>,  d1 < 0  >>

\* `a as u64` for a u32: zero extension
u64_from_u32(a) == <<0, 0, 0, 0>> \o a

\* the conversion to u64 extending with zeros whatever the sign
u64_from_i32_zero_extended(a) == <<0, 0, 0, 0>> \o a

\* `a as i32 as u64` for a u32: sign extension
u64_from_i32(a) ==
    (IF a[1] >= 128 THEN <<255, 255, 255, 255>> ELSE <<0, 0, 0, 0>>) \o a

\* u64::overflowing_mul(...).0: the low 64 bits of the product
wrapping_mul64(x, y) ==
    LET \* limb k (0 = least significant) of an 8-byte value
        limb(v, k) == v[8 - k]
        \* column k of the schoolbook product, before carries
        col[k \in 0..7] ==
            LET term[i \in 0..7] == IF i <= k THEN limb(x, i) * limb(y, k - i) ELSE 0
            IN  term[0] + term[1] + term[2] + term[3]
                + term[4] + term[5] + term[6] + term[7]
        acc[k \in 0..7] == IF k = 0 THEN col[0] ELSE col[k] + acc[k - 1] \div 256
    IN  <<acc[7] % 256, acc[6] % 256, acc[5] % 256, acc[4] % 256,
          acc[3] % 256, acc[2] % 256, acc[1] % 256, acc[0] % 256>>

\* `(v >> 32) as u32` and `v as u32` for a u64
hi32(v) == <<v[1], v[2], v[3], v[4]>>

lo32(v) == <<v[5], v[6], v[7], v[8]>>

-----------------------------------------------------------------------------
(* Outcomes.  A call returns normally ("Ok"), returns a RuntimeError ("Err",   *)
(* with its FatalErrorType) or panics ("Panic": the thread unwinds and nothing *)
(* runs after it).                                                             *)

IllegalMemoryAccess == "IllegalMemoryAccess"

IllegalInstruction == "IllegalInstruction"

IllegalRegisterAccess == "IllegalRegisterAccess"

NoError == "none"

\* logging::fatal_error(err_type, message): its body is not among the sources.
\* Its callers are typed `-> !` (memory.rs 273, 280), so it never returns, and the
\* executor takes what it raises as a RuntimeError (`?` in execution.rs 130):
\* the call in progress stops at this point and hands err_type to its caller.
fatal_error(err_type) == [status |-> "Err", err |-> err_type]

\* Err(RuntimeError::new(err_type, message))
RuntimeError_new(err_type) == [status |-> "Err", err |-> err_type]

\* a normal return
Ok == [status |-> "Ok", err |-> NoError]

\* panic!(...)
Panic == [status |-> "Panic", err |-> NoError]

\* the status and error of an outcome, without what it carries
Outcome(r) == [status |-> r.status, err |-> r.err]

-----------------------------------------------------------------------------
(* usize *)

\* usize on a 64-bit target: eight bytes, the most significant first
usize_MAX == <<255, 255, 255, 255, 255, 255, 255, 255>>

\* a small number as a usize
usize_from(n) ==
    <<0, 0, 0, 0, (n \div 16777216) % 256, (n \div 65536) % 256, (n \div 256) % 256, n % 256>>

\* what the wrapping arithmetic of usize leaves of a number that may have
\* gone below 0: n modulo 2^64 (2^64 - k is the complement of k - 1)
usize_wrapping_from(n) ==
    IF n >= 0 THEN usize_from(n)
    ELSE [i \in 1..8 |-> 255 - usize_from(-n - 1)[i]]

\* a usize below 2^31 as a number
usize_small(a) == a[5] * 16777216 + a[6] * 65536 + a[7] * 256 + a[8]

\* a < b on usize
usize_lt(a, b) ==
    \E i \in 1..8 : a[i] < b[i] /\ \A j \in 1..(i - 1) : a[j] = b[j]

\* `address % alignment as usize`, alignment being a nonzero u8
usize_rem(address, alignment) ==
    LET r[i \in 0..8] == IF i = 0 THEN 0 ELSE (r[i - 1] * 256 + address[i]) % alignment
    IN  r[8]

\* `address += 1` on an address below usize::MAX
usize_inc(address) ==
    [i \in 1..8 |->
        (address[i] + (IF \A j \in (i + 1)..8 : address[j] = 255 THEN 1 ELSE 0)) % 256]

\* `address -= 1` on an address above 0
usize_dec(address) ==
    [i \in 1..8 |->
        (address[i] + (IF \A j \in (i + 1)..8 : address[j] = 0 THEN 255 ELSE 0)) % 256]

-----------------------------------------------------------------------------
(* runtime/memory.rs: MemorySegment *)

\* MemorySegment::new.  A static segment allocates its bytes, vec![0; size],
\* which panics with "capacity overflow" in every build when size is 2^63 or
\* more (a wrapped size, kept negative here); a segment that is not static
\* starts with Vec::new() whatever its size.
MemorySegment_new(name, start_address, size, is_static, direction, read_only) ==
    (IF is_static /\ size < 0 THEN Panic ELSE Ok)
    @@ [segment |->
           [name          |-> name,
            start_address |-> start_address,
            size          |-> size,
            is_static     |-> is_static,
            direction     |-> direction,
            data          |-> IF is_static /\ size >= 0 THEN [i \in 1..size |-> 0] ELSE <<>>,
            read_only     |-> read_only]]

allow_writes(seg) == [seg EXCEPT !.read_only = FALSE]

set_read_only(seg) == [seg EXCEPT !.read_only = TRUE]

\* MemorySegment::get_high_address.  `start_address + size - 1` is taken in
\* usize, the addition first: a sum of 0 (the subtraction goes below 0) and a
\* sum that passes the highest usize (a size that has wrapped, kept here as
\* the negative number it is congruent to modulo 2^64) panic in a build with
\* overflow checks and wrap in one without
get_high_address(seg, overflow_checks) ==
    IF seg.direction = "Up"
    THEN IF \/ seg.start_address + seg.size = 0
            \/ seg.size < 0 /\ seg.start_address + seg.size >= 0
         THEN IF overflow_checks THEN Panic @@ [value |-> usize_from(0)]
              ELSE Ok @@ [value |-> usize_wrapping_from(seg.start_address + seg.size - 1)]
         ELSE Ok @@ [value |-> usize_wrapping_from(seg.start_address + seg.size - 1)]
    ELSE Ok @@ [value |-> usize_from(seg.start_address)]

\* MemorySegment::get_low_address.  `start_address - size + 1` is taken in
\* usize, the subtraction first: a size above the start (a wrapped size is)
\* panics in a build with overflow checks and wraps in one without
get_low_address(seg, overflow_checks) ==
    IF seg.direction = "Up" THEN Ok @@ [value |-> usize_from(seg.start_address)]
    ELSE IF seg.size < 0 \/ seg.start_address - seg.size < 0
    THEN IF overflow_checks THEN Panic @@ [value |-> usize_from(0)]
         ELSE Ok @@ [value |-> usize_wrapping_from(seg.start_address - seg.size + 1)]
    ELSE Ok @@ [value |-> usize_from(seg.start_address - seg.size + 1)]

\* `address >= low && address <= high` as get_segment and get_offset take it,
\* high only when the first test passed: "Yes", "No", or "Panic" when a bound
\* that is taken panics
within(seg, address, overflow_checks) ==
    IF get_low_address(seg, overflow_checks).status # "Ok" THEN "Panic"
    ELSE IF usize_lt(usize_from(address), get_low_address(seg, overflow_checks).value)
    THEN "No"
    ELSE IF get_high_address(seg, overflow_checks).status # "Ok" THEN "Panic"
    ELSE IF usize_lt(get_high_address(seg, overflow_checks).value, usize_from(address))
    THEN "No"
    ELSE "Yes"

\* `address - self.get_low_address()` for an address within the bounds
offset_of(seg, address, overflow_checks) ==
    address - usize_small(get_low_address(seg, overflow_checks).value)

\* get_offset without its test of the bounds
get_offset_unbounded(seg, address, overflow_checks) ==
    IF within(seg, address, overflow_checks) = "Panic" THEN Panic @@ [offset |-> 0]
    ELSE IF within(seg, address, overflow_checks) = "No" THEN Ok @@ [offset |-> 0]
    ELSE Ok @@ [offset |-> offset_of(seg, address, overflow_checks)]

\* MemorySegment::get_offset: the offset, or the fatal error for an address
\* outside [low, high].  The message of the fatal error is formatted before
\* fatal_error is called, and its arguments call get_low_address and
\* get_high_address again: for an address below low the test never asked for
\* the high address, so a high address that overflows panics here
get_offset(seg, address, overflow_checks) ==
    IF within(seg, address, overflow_checks) = "Panic" THEN Panic @@ [offset |-> 0]
    ELSE IF within(seg, address, overflow_checks) = "No"
    THEN IF \/ get_low_address(seg, overflow_checks).status # "Ok"
            \/ get_high_address(seg, overflow_checks).status # "Ok"
         THEN Panic @@ [offset |-> 0]
         ELSE fatal_error(IllegalMemoryAccess) @@ [offset |-> 0]
    ELSE Ok @@ [offset |-> offset_of(seg, address, overflow_checks)]

\* MemorySegment::get_byte (data is a Vec indexed from 0, a sequence here from 1)
MemorySegment_get_byte(seg, address, overflow_checks) ==
    LET o == get_offset(seg, address, overflow_checks) IN
    IF o.status # "Ok" THEN Outcome(o) @@ [value |-> 0]
    ELSE IF o.offset >= Len(seg.data) THEN Ok @@ [value |-> 0]
    ELSE Ok @@ [value |-> seg.data[o.offset + 1]]

\* MemorySegment::get_halfword: (hi << 8) | lo on u16
MemorySegment_get_halfword(seg, address, overflow_checks) ==
    LET h == MemorySegment_get_byte(seg, address, overflow_checks) IN
    IF h.status # "Ok" THEN h ELSE
    LET l == MemorySegment_get_byte(seg, address + 1, overflow_checks) IN
    IF l.status # "Ok" THEN l ELSE
    Ok @@ [value |-> as_u16(bitor(shl(u32_from(h.value), 8), u32_from(l.value)))]

\* get_word putting the bytes together in the opposite order
MemorySegment_get_word_reversed(seg, address, overflow_checks) ==
    LET r1 == MemorySegment_get_byte(seg, address, overflow_checks) IN
    IF r1.status # "Ok" THEN r1 ELSE
    LET r2 == MemorySegment_get_byte(seg, address + 1, overflow_checks) IN
    IF r2.status # "Ok" THEN r2 ELSE
    LET r3 == MemorySegment_get_byte(seg, address + 2, overflow_checks) IN
    IF r3.status # "Ok" THEN r3 ELSE
    LET r4 == MemorySegment_get_byte(seg, address + 3, overflow_checks) IN
    IF r4.status # "Ok" THEN r4 ELSE
    Ok @@ [value |-> <<r4.value, r3.value, r2.value, r1.value>>]

\* MemorySegment::get_word: (b1 << 24) | (b2 << 16) | (b3 << 8) | b4
MemorySegment_get_word(seg, address, overflow_checks) ==
    LET r1 == MemorySegment_get_byte(seg, address, overflow_checks) IN
    IF r1.status # "Ok" THEN r1 ELSE
    LET r2 == MemorySegment_get_byte(seg, address + 1, overflow_checks) IN
    IF r2.status # "Ok" THEN r2 ELSE
    LET r3 == MemorySegment_get_byte(seg, address + 2, overflow_checks) IN
    IF r3.status # "Ok" THEN r3 ELSE
    LET r4 == MemorySegment_get_byte(seg, address + 3, overflow_checks) IN
    IF r4.status # "Ok" THEN r4 ELSE
    Ok @@ [value |-> bitor(bitor(bitor(shl(u32_from(r1.value), 24),
                                       shl(u32_from(r2.value), 16)),
                                 shl(u32_from(r3.value), 8)),
                           u32_from(r4.value))]

\* Vec::resize filling the new elements with 255 in place of 0
resize_unzeroed(data, new_len) ==
    [i \in 1..new_len |-> IF i <= Len(data) THEN data[i] ELSE 255]

\* Vec::resize(new_len, 0) when new_len exceeds the length
resize(data, new_len) ==
    [i \in 1..new_len |-> IF i <= Len(data) THEN data[i] ELSE 0]

\* set_byte without its test of read_only
MemorySegment_set_byte_unprotected(seg, address, value, overflow_checks) ==
    LET o == get_offset(seg, address, overflow_checks) IN
    IF o.status # "Ok" THEN Outcome(o) @@ [seg |-> seg]
    ELSE IF o.offset >= Len(seg.data) /\ seg.is_static THEN Panic @@ [seg |-> seg]
    ELSE LET grown == IF o.offset >= Len(seg.data)
                      THEN resize(seg.data, o.offset + 1) ELSE seg.data
         IN  Ok @@ [seg |-> [seg EXCEPT !.data = [grown EXCEPT ![o.offset + 1] = value]]]

\* MemorySegment::set_byte: the outcome and the segment as the call leaves it
MemorySegment_set_byte(seg, address, value, overflow_checks) ==
    LET o == get_offset(seg, address, overflow_checks) IN
    IF o.status # "Ok" THEN Outcome(o) @@ [seg |-> seg]
    ELSE IF seg.read_only THEN fatal_error(IllegalMemoryAccess) @@ [seg |-> seg]
    ELSE IF o.offset >= Len(seg.data) /\ seg.is_static THEN Panic @@ [seg |-> seg]
    ELSE LET grown == IF o.offset >= Len(seg.data)
                      THEN resize(seg.data, o.offset + 1) ELSE seg.data
         IN  Ok @@ [seg |-> [seg EXCEPT !.data = [grown EXCEPT ![o.offset + 1] = value]]]

\* MemorySegment::set_halfword (value is a u16)
MemorySegment_set_halfword(seg, address, value, overflow_checks) ==
    IF address % 2 # 0 THEN fatal_error(IllegalMemoryAccess) @@ [seg |-> seg] ELSE
    LET h  == as_u8(shr(u32_from(value), 8))
        l  == as_u8(u32_from(value))
        r1 == MemorySegment_set_byte(seg, address, h, overflow_checks)
    IN  IF r1.status # "Ok" THEN r1
        ELSE MemorySegment_set_byte(r1.seg, address + 1, l, overflow_checks)

\* set_word without its test of the alignment
MemorySegment_set_word_unaligned(seg, address, value, overflow_checks) ==
    LET r1 == MemorySegment_set_byte(seg, address, as_u8(shr(value, 24)), overflow_checks) IN
    IF r1.status # "Ok" THEN r1 ELSE
    LET r2 == MemorySegment_set_byte(r1.seg, address + 1, as_u8(shr(value, 16)), overflow_checks) IN
    IF r2.status # "Ok" THEN r2 ELSE
    LET r3 == MemorySegment_set_byte(r2.seg, address + 2, as_u8(shr(value, 8)), overflow_checks) IN
    IF r3.status # "Ok" THEN r3 ELSE
    MemorySegment_set_byte(r3.seg, address + 3, as_u8(value), overflow_checks)

\* MemorySegment::set_word
MemorySegment_set_word(seg, address, value, overflow_checks) ==
    IF address % 4 # 0 THEN fatal_error(IllegalMemoryAccess) @@ [seg |-> seg] ELSE
    LET b1 == as_u8(shr(value, 24))
        b2 == as_u8(shr(value, 16))
        b3 == as_u8(shr(value, 8))
        b4 == as_u8(value)
        r1 == MemorySegment_set_byte(seg, address, b1, overflow_checks)
    IN  IF r1.status # "Ok" THEN r1 ELSE
        LET r2 == MemorySegment_set_byte(r1.seg, address + 1, b2, overflow_checks) IN
        IF r2.status # "Ok" THEN r2 ELSE
        LET r3 == MemorySegment_set_byte(r2.seg, address + 2, b3, overflow_checks) IN
        IF r3.status # "Ok" THEN r3 ELSE
        MemorySegment_set_byte(r3.seg, address + 3, b4, overflow_checks)

-----------------------------------------------------------------------------
(* runtime/memory.rs: MemoryMap *)

MemoryMap_new == [segments |-> <<>>]

\* the test add_segment makes of one pair of segments, low(a) < high(b) &&
\* high(a) > low(b), the second half only when the first holds: "Yes", "No",
\* or "Panic" when a bound that is taken panics
overlaps(a, b, overflow_checks) ==
    IF \/ get_low_address(a, overflow_checks).status # "Ok"
       \/ get_high_address(b, overflow_checks).status # "Ok"
    THEN "Panic"
    ELSE IF ~usize_lt(get_low_address(a, overflow_checks).value,
                      get_high_address(b, overflow_checks).value)
    THEN "No"
    ELSE IF \/ get_high_address(a, overflow_checks).status # "Ok"
            \/ get_low_address(b, overflow_checks).status # "Ok"
    THEN "Panic"
    ELSE IF usize_lt(get_low_address(b, overflow_checks).value,
                     get_high_address(a, overflow_checks).value)
    THEN "Yes"
    ELSE "No"

\* the two nested loops of add_segment stop in a panic: at some pair of
\* distinct entries of the Vec a bound panics or the overlap is found
overlap_found(segments, overflow_checks) ==
    \E i, j \in 1..Len(segments) :
        /\ i # j
        /\ overlaps(segments[i], segments[j], overflow_checks) # "No"

\* MemoryMap::add_segment: the segment is pushed, then the overlap check
\* panics or lets the call return
add_segment(mem, segment, overflow_checks) ==
    LET pushed == Append(mem.segments, segment) IN
    (IF overlap_found(pushed, overflow_checks) THEN Panic ELSE Ok)
        @@ [memory |-> [mem EXCEPT !.segments = pushed]]

\* get_segment once the loop has come to entry i, the first whose test does
\* not fail: a bound of it panics, or it is returned
segment_found(mem, i, address, overflow_checks) ==
    IF within(mem.segments[i], address, overflow_checks) = "Panic"
    THEN Panic @@ [index |-> 0]
    ELSE Ok @@ [index |-> i]

\* MemoryMap::get_segment / get_segment_mut: the index in the Vec of the first
\* segment holding the address, 0 for None; the loop stops in a panic at a
\* segment whose bound panics
get_segment(mem, address, overflow_checks) ==
    IF \A i \in 1..Len(mem.segments) : within(mem.segments[i], address, overflow_checks) = "No"
    THEN Ok @@ [index |-> 0]
    ELSE CHOOSE r \in
             {segment_found(mem, i, address, overflow_checks) :
                 i \in {CHOOSE k \in 1..Len(mem.segments) :
                           /\ within(mem.segments[k], address, overflow_checks) # "No"
                           /\ \A j \in 1..(k - 1) :
                                 within(mem.segments[j], address, overflow_checks) = "No"}} :
             TRUE

\* MemoryMap::invalid_read, invalid_write
invalid_read == fatal_error(IllegalMemoryAccess)

invalid_write == fatal_error(IllegalMemoryAccess)

MemoryMap_get_byte(mem, address, overflow_checks) ==
    LET s == get_segment(mem, address, overflow_checks) IN
    IF s.status # "Ok" THEN Outcome(s) @@ [value |-> 0]
    ELSE IF s.index = 0 THEN invalid_read @@ [value |-> 0]
    ELSE MemorySegment_get_byte(mem.segments[s.index], address, overflow_checks)

MemoryMap_get_halfword(mem, address, overflow_checks) ==
    LET s == get_segment(mem, address, overflow_checks) IN
    IF s.status # "Ok" THEN Outcome(s) @@ [value |-> 0]
    ELSE IF s.index = 0 THEN invalid_read @@ [value |-> 0]
    ELSE MemorySegment_get_halfword(mem.segments[s.index], address, overflow_checks)

MemoryMap_get_word(mem, address, overflow_checks) ==
    LET s == get_segment(mem, address, overflow_checks) IN
    IF s.status # "Ok" THEN Outcome(s) @@ [value |-> 0]
    ELSE IF s.index = 0 THEN invalid_read @@ [value |-> 0]
    ELSE MemorySegment_get_word(mem.segments[s.index], address, overflow_checks)

\* the map with segment i as a store left it, under the store's outcome
stored(mem, i, r) ==
    Outcome(r) @@ [memory |-> [mem EXCEPT !.segments[i] = r.seg]]

MemoryMap_set_byte(mem, address, value, overflow_checks) ==
    LET s == get_segment(mem, address, overflow_checks) IN
    IF s.status # "Ok" THEN Outcome(s) @@ [memory |-> mem]
    ELSE IF s.index = 0 THEN invalid_write @@ [memory |-> mem]
    ELSE stored(mem, s.index,
                MemorySegment_set_byte(mem.segments[s.index], address, value, overflow_checks))

MemoryMap_set_halfword(mem, address, value, overflow_checks) ==
    LET s == get_segment(mem, address, overflow_checks) IN
    IF s.status # "Ok" THEN Outcome(s) @@ [memory |-> mem]
    ELSE IF s.index = 0 THEN invalid_write @@ [memory |-> mem]
    ELSE stored(mem, s.index,
                MemorySegment_set_halfword(mem.segments[s.index], address, value, overflow_checks))

MemoryMap_set_word(mem, address, value, overflow_checks) ==
    LET s == get_segment(mem, address, overflow_checks) IN
    IF s.status # "Ok" THEN Outcome(s) @@ [memory |-> mem]
    ELSE IF s.index = 0 THEN invalid_write @@ [memory |-> mem]
    ELSE stored(mem, s.index,
                MemorySegment_set_word(mem.segments[s.index], address, value, overflow_checks))

\* MemoryMap::segment_by_name / mut_segment_by_name: index of the first segment
\* of that name, 0 for None
segment_by_name(mem, name) ==
    LET named == {i \in 1..Len(mem.segments) : mem.segments[i].name = name}
    IN  IF named = {} THEN 0 ELSE CHOOSE i \in named : \A j \in named : i <= j

-----------------------------------------------------------------------------
(* mips/instruction.rs *)

\* struct Instruction: opc_func is the function code of an R-format
\* instruction and the opcode of any other
Instruction(opc_func, name, format) ==
    [opc_func |-> opc_func, name |-> name, format |-> format]

\* mod instructions: one constant per supported instruction
ADD == Instruction(32, "add", "R")

ADDU == Instruction(33, "addu", "R")

ADDI == Instruction(8, "addi", "I")

ADDIU == Instruction(9, "addiu", "I")

AND == Instruction(36, "and", "R")

ANDI == Instruction(12, "andi", "I")

DIV == Instruction(26, "div", "R")

DIVU == Instruction(27, "divu", "R")

MULT == Instruction(24, "mult", "R")

MULTU == Instruction(25, "multu", "R")

NOR == Instruction(39, "nor", "R")

OR == Instruction(37, "or", "R")

ORI == Instruction(13, "ori", "I")

SLL == Instruction(0, "sll", "R")

SLLV == Instruction(4, "sllv", "R")

SRA == Instruction(3, "sra", "R")

SRAV == Instruction(7, "srav", "R")

SRL == Instruction(2, "srl", "R")

SRLV == Instruction(6, "srlv", "R")

SUB == Instruction(34, "sub", "R")

SUBU == Instruction(35, "subu", "R")

XOR == Instruction(38, "xor", "R")

XORI == Instruction(14, "xori", "I")

SLT == Instruction(42, "slt", "R")

SLTU == Instruction(41, "sltu", "R")

SLTI == Instruction(10, "slti", "I")

SLTIU == Instruction(9, "sltiu", "I")

BEQ == Instruction(4, "beq", "I")

BGTZ == Instruction(7, "bgz", "I")

BLEZ == Instruction(6, "blez", "I")

BNE == Instruction(5, "bne", "I")

J == Instruction(2, "j", "J")

JAL == Instruction(3, "jal", "J")

JALR == Instruction(9, "jalr", "R")

JR == Instruction(8, "jr", "R")

LB == Instruction(32, "lb", "I")

LBU == Instruction(36, "lbu", "I")

LH == Instruction(33, "lh", "I")

LHU == Instruction(37, "lhu", "I")

LW == Instruction(35, "lw", "I")

SB == Instruction(40, "sb", "I")

SH == Instruction(41, "sh", "I")

SW == Instruction(43, "sw", "I")

MFHI == Instruction(16, "mfhi", "R")

MFLO == Instruction(18, "mflo", "R")

MTHI == Instruction(17, "mthi", "R")

MTLO == Instruction(19, "mtlo", "R")

SYSCALL == Instruction(12, "syscall", "R")

\* instructions::ALL_INSTRUCTIONS, in the order of the source
ALL_INSTRUCTIONS ==
    << ADD, ADDU, ADDI, ADDIU, AND, ANDI,
       DIV, DIVU, MULT, MULTU, NOR, OR,
       ORI, SLL, SLLV, SRA, SRAV, SRL,
       SRLV, SUB, SUBU, XOR, XORI, SLT,
       SLTU, SLTI, SLTIU, BEQ, BGTZ, BLEZ,
       BNE, J, JAL, JALR, JR, LB,
       LBU, LH, LHU, LW, SB, SH,
       SW, MFHI, MFLO, MTHI, MTLO, SYSCALL >>

RFormat(rs, rt, rd, shamt, funct) ==
    [tag |-> "RFormat", rs |-> rs, rt |-> rt, rd |-> rd, shamt |-> shamt, funct |-> funct]

IFormat(rs, rt, imm) == [tag |-> "IFormat", rs |-> rs, rt |-> rt, imm |-> imm]

JFormat(address) == [tag |-> "JFormat", address |-> address]

\* struct InstructionData
InstructionData(base, args) == [base |-> base, args |-> args]

\* is_null looking for a mnemonic "nop" in place of the all-zero sll
is_null_by_name(inst) == inst.base.name = "nop"

\* InstructionData::is_null
is_null(inst) ==
    IF inst.args.tag = "RFormat"
    THEN IF inst.base.opc_func = 0
         THEN inst.args.rs = 0 /\ inst.args.rt = 0 /\ inst.args.rd = 0 /\ inst.args.shamt = 0
         ELSE FALSE
    ELSE FALSE

-----------------------------------------------------------------------------
(* runtime/decoding.rs *)

\* the first entry of ALL_INSTRUCTIONS whose opc_func is code (0: none), as
\* the `for inst in ALL_INSTRUCTIONS.iter()` loops find it
first_with_code(code) ==
    LET found == {i \in 1..Len(ALL_INSTRUCTIONS) : ALL_INSTRUCTIONS[i].opc_func = code}
    IN  IF found = {} THEN 0 ELSE CHOOSE i \in found : \A j \in found : i <= j

\* decode_base_instruction falling back to the first entry of the table when
\* no entry has the code
base_found_defaulting(i) ==
    Ok @@ [base |-> ALL_INSTRUCTIONS[IF i = 0 THEN 1 ELSE i]]

\* what decode_base_instruction returns for the index of the entry it found
base_found(i) ==
    IF i = 0 THEN RuntimeError_new(IllegalInstruction) @@ [base |-> Instruction(0, "none", "none")]
    ELSE Ok @@ [base |-> ALL_INSTRUCTIONS[i]]

\* VM::decode_base_instruction
decode_base_instruction(instruction) ==
    LET b1     == as_u8(shr(instruction, 24))
        opcode == b1 \div 4                               \* b1 >> 2
        func_code == as_u8(shr(shl(instruction, 26), 26))
    IN  base_found(IF opcode = 0 THEN first_with_code(func_code)
                   ELSE first_with_code(opcode))

\* decode_instruction taking each field by its right shift alone, without the
\* left shift that clears the bits above the field
decode_args_unmasked(format, instruction) ==
    CASE format = "R" ->
            RFormat(as_u8(shr(instruction, 21)),
                    as_u8(shr(instruction, 16)),
                    as_u8(shr(instruction, 11)),
                    as_u8(shr(instruction, 6)),
                    as_u8(instruction))
      [] format = "I" ->
            IFormat(as_u8(shr(instruction, 21)),
                    as_u8(shr(instruction, 16)),
                    as_u16(instruction))
      [] format = "J" ->
            JFormat(instruction)

\* the record decode_instruction builds once the base instruction is known
decode_args(format, instruction) ==
    CASE format = "R" ->
            RFormat(as_u8(shr(shl(instruction, 6), 27)),
                    as_u8(shr(shl(instruction, 11), 27)),
                    as_u8(shr(shl(instruction, 16), 27)),
                    as_u8(shr(shl(instruction, 21), 27)),
                    as_u8(shr(shl(instruction, 26), 26)))
      [] format = "I" ->
            IFormat(as_u8(shr(shl(instruction, 6), 27)),
                    as_u8(shr(shl(instruction, 11), 27)),
                    as_u16(shr(shl(instruction, 16), 16)))
      [] format = "J" ->
            JFormat(shr(shl(instruction, 6), 6))

NoInstruction == InstructionData(Instruction(0, "none", "none"), [tag |-> "none"])

\* decode_instruction once decode_base_instruction has returned b
decoded(b, instruction) ==
    IF b.status # "Ok" THEN Outcome(b) @@ [inst |-> NoInstruction]
    ELSE Ok @@ [inst |-> InstructionData(b.base, decode_args(b.base.format, instruction))]

\* VM::decode_instruction
decode_instruction(instruction) ==
    decoded(decode_base_instruction(instruction), instruction)

-----------------------------------------------------------------------------
(* runtime/vm.rs *)

\* struct MemoryLayout
MemoryLayout(text_low, data_low, heap_low, mmio_high, stack_high, heap_size, stack_size) ==
    [text_low |-> text_low, data_low |-> data_low, heap_low |-> heap_low,
     mmio_high |-> mmio_high, stack_high |-> stack_high,
     heap_size |-> heap_size, stack_size |-> stack_size]

\* the five segments VM::new hands to add_segment, in its order.  The sizes
\* of text, data and mmio are differences taken in usize: for a layout whose
\* addresses are out of order the difference goes below 0, which panics in a
\* build with overflow checks and wraps in one without; the wrapped size
\* 2^64 - k is kept as the number -k
layout_segments(layout, overflow_checks) ==
    IF /\ overflow_checks
       /\ \/ layout.data_low < layout.text_low
          \/ layout.heap_low < layout.data_low
          \/ layout.mmio_high < layout.stack_high
    THEN Panic @@ [segments |-> <<>>]
    ELSE Ok @@
         [segments |->
            << MemorySegment_new("text", layout.text_low, layout.data_low - layout.text_low,
                                 FALSE, "Up", TRUE).segment,
               MemorySegment_new("data", layout.data_low, layout.heap_low - layout.data_low,
                                 FALSE, "Up", TRUE).segment,
               MemorySegment_new("heap", layout.heap_low, layout.heap_size,
                                 FALSE, "Up", FALSE).segment,
               MemorySegment_new("mmio", layout.mmio_high, layout.mmio_high - layout.stack_high,
                                 FALSE, "Down", FALSE).segment,
               MemorySegment_new("stack", layout.stack_high, layout.stack_size,
                                 FALSE, "Down", FALSE).segment >>]

\* the memory map after add_segment was called on the first n of segs, and
\* the outcome of the last call that ran (a panic stops the sequence)
RECURSIVE add_segments(_, _, _)
add_segments(segs, n, overflow_checks) ==
    IF n = 0 THEN Ok @@ [memory |-> MemoryMap_new]
    ELSE LET before == add_segments(segs, n - 1, overflow_checks) IN
         IF before.status # "Ok" THEN before
         ELSE add_segment(before.memory, segs[n], overflow_checks)

\* VM::new
VM_new(layout, overflow_checks) ==
    LET m == IF layout_segments(layout, overflow_checks).status = "Panic"
             THEN Panic @@ [memory |-> MemoryMap_new]
             ELSE add_segments(layout_segments(layout, overflow_checks).segments, 5,
                               overflow_checks) IN
    Outcome(m) @@
    [vm |-> [registers |-> [r \in 0..31 |-> Zero32],
             memory    |-> m.memory,
             pc        |-> layout.text_low,
             hi        |-> Zero32,
             lo        |-> Zero32]]

\* set_register without its test of register numbers above 31
set_register_unbounded(vm, register, value) ==
    IF register = 0 THEN RuntimeError_new(IllegalRegisterAccess) @@ [vm |-> vm]
    ELSE Ok @@ [vm |-> [vm EXCEPT !.registers =
                           [r \in 0..31 |-> IF r = register THEN value ELSE @[r]]]]

\* set_register without its test of register 0
set_register_unchecked(vm, register, value) ==
    IF register > 31 THEN RuntimeError_new(IllegalRegisterAccess) @@ [vm |-> vm]
    ELSE Ok @@ [vm |-> [vm EXCEPT !.registers[register] = value]]

\* VM::set_register (register is a u8)
set_register(vm, register, value) ==
    IF register = 0 THEN RuntimeError_new(IllegalRegisterAccess) @@ [vm |-> vm]
    ELSE IF register > 31 THEN RuntimeError_new(IllegalRegisterAccess) @@ [vm |-> vm]
    ELSE Ok @@ [vm |-> [vm EXCEPT !.registers[register] = value]]

\* VM::get_register
get_register(vm, register) ==
    IF register > 31 THEN RuntimeError_new(IllegalRegisterAccess) @@ [value |-> Zero32]
    ELSE Ok @@ [value |-> vm.registers[register]]

set_pc(vm, value) == [vm EXCEPT !.pc = value]

set_hi(vm, value) == [vm EXCEPT !.hi = value]

set_lo(vm, value) == [vm EXCEPT !.lo = value]

-----------------------------------------------------------------------------
(* runtime/execution.rs *)

\* enum Target.  Target::Memory is built nowhere in the source and is left out.
Register(reg) == [tag |-> "Register", reg |-> reg]

Immediate(value, ext) == [tag |-> "Immediate", value |-> value, ext |-> ext]

\* coerece_r_format / coerce_i_format: the arguments, or a panic when they are
\* of another format
coerece_r_format(inst) == IF inst.args.tag = "RFormat" THEN Ok ELSE Panic

coerce_i_format(inst) == IF inst.args.tag = "IFormat" THEN Ok ELSE Panic

NoTask == [kind |-> "None"]

\* the outcome of a get_*_task arm that coerces the arguments and builds a task
r_task(inst, task) == coerece_r_format(inst) @@ [some |-> TRUE, task |-> task]

i_task(inst, task) == coerce_i_format(inst) @@ [some |-> TRUE, task |-> task]

no_task == Ok @@ [some |-> FALSE, task |-> NoTask]

\* get_add_task with overflow_trap set for the unsigned additions too
get_add_task_all_trapping(inst) ==
    LET name == inst.base.name  args == inst.args IN
    CASE name \in {"add", "addu"} ->
            r_task(inst, [kind |-> "Add", dest |-> Register(args.rd), a |-> Register(args.rs),
                          b |-> Register(args.rt), overflow_trap |-> TRUE])
      [] name \in {"addi", "addiu"} ->
            i_task(inst, [kind |-> "Add", dest |-> Register(args.rt), a |-> Register(args.rs),
                          b |-> Immediate(args.imm, "Sign"), overflow_trap |-> TRUE])
      [] OTHER -> no_task

\* VM::get_add_task
get_add_task(inst) ==
    LET name == inst.base.name  args == inst.args IN
    CASE name = "add" ->
            r_task(inst, [kind |-> "Add", dest |-> Register(args.rd), a |-> Register(args.rs),
                          b |-> Register(args.rt), overflow_trap |-> TRUE])
      [] name = "addu" ->
            r_task(inst, [kind |-> "Add", dest |-> Register(args.rd), a |-> Register(args.rs),
                          b |-> Register(args.rt), overflow_trap |-> FALSE])
      [] name = "addi" ->
            i_task(inst, [kind |-> "Add", dest |-> Register(args.rt), a |-> Register(args.rs),
                          b |-> Immediate(args.imm, "Sign"), overflow_trap |-> TRUE])
      [] name = "addiu" ->
            i_task(inst, [kind |-> "Add", dest |-> Register(args.rt), a |-> Register(args.rs),
                          b |-> Immediate(args.imm, "Sign"), overflow_trap |-> FALSE])
      [] OTHER -> no_task

\* VM::get_sub_task
get_sub_task(inst) ==
    LET name == inst.base.name  args == inst.args IN
    CASE name = "sub" ->
            r_task(inst, [kind |-> "Sub", dest |-> Register(args.rd), a |-> Register(args.rs),
                          b |-> Register(args.rt), overflow_trap |-> TRUE])
      [] name = "subu" ->
            r_task(inst, [kind |-> "Sub", dest |-> Register(args.rd), a |-> Register(args.rs),
                          b |-> Register(args.rt), overflow_trap |-> FALSE])
      [] OTHER -> no_task

\* VM::get_mult_task
get_mult_task(inst) ==
    LET name == inst.base.name  args == inst.args IN
    CASE name = "mult" ->
            r_task(inst, [kind |-> "Mult", a |-> Register(args.rs), b |-> Register(args.rt),
                          signed |-> TRUE])
      [] name = "multu" ->
            r_task(inst, [kind |-> "Mult", a |-> Register(args.rs), b |-> Register(args.rt),
                          signed |-> FALSE])
      [] OTHER -> no_task

\* VM::get_boolean_task
get_boolean_task(inst) ==
    LET name == inst.base.name  args == inst.args IN
    CASE name = "and" ->
            r_task(inst, [kind |-> "And", dest |-> Register(args.rd), a |-> Register(args.rs),
                          b |-> Register(args.rt)])
      [] name = "andi" ->
            i_task(inst, [kind |-> "And", dest |-> Register(args.rt), a |-> Register(args.rs),
                          b |-> Immediate(args.imm, "Zero")])
      [] name = "or" ->
            r_task(inst, [kind |-> "Or", dest |-> Register(args.rd), a |-> Register(args.rs),
                          b |-> Register(args.rt)])
      [] name = "ori" ->
            i_task(inst, [kind |-> "Or", dest |-> Register(args.rt), a |-> Register(args.rs),
                          b |-> Immediate(args.imm, "Zero")])
      [] name = "nor" ->
            r_task(inst, [kind |-> "Nor", dest |-> Register(args.rd), a |-> Register(args.rs),
                          b |-> Register(args.rt)])
      [] name = "xor" ->
            r_task(inst, [kind |-> "Xor", dest |-> Register(args.rd), a |-> Register(args.rs),
                          b |-> Register(args.rt)])
      [] name = "xori" ->
            i_task(inst, [kind |-> "Xor", dest |-> Register(args.rt), a |-> Register(args.rs),
                          b |-> Immediate(args.imm, "Zero")])
      [] OTHER -> no_task

\* the Shift task of get_shift_task
shift_task(dest, a, b, direction, shift_type) ==
    [kind |-> "Shift", dest |-> dest, a |-> a, b |-> b,
     direction |-> direction, shift_type |-> shift_type]

\* VM::get_shift_task
get_shift_task(inst) ==
    LET name == inst.base.name  args == inst.args IN
    CASE name = "sll" ->
            r_task(inst, shift_task(Register(args.rd), Register(args.rt),
                                    Immediate(args.shamt, "Zero"), "Left", "Logical"))
      [] name = "sllv" ->
            r_task(inst, shift_task(Register(args.rd), Register(args.rt),
                                    Register(args.rs), "Left", "Logical"))
      [] name = "sra" ->
            r_task(inst, shift_task(Register(args.rd), Register(args.rt),
                                    Immediate(args.shamt, "Zero"), "Right", "Arithmetic"))
      [] name = "srav" ->
            r_task(inst, shift_task(Register(args.rd), Register(args.rt),
                                    Register(args.rs), "Right", "Arithmetic"))
      [] name = "srl" ->
            r_task(inst, shift_task(Register(args.rd), Register(args.rt),
                                    Immediate(args.shamt, "Zero"), "Right", "Logical"))
      [] name = "srlv" ->
            r_task(inst, shift_task(Register(args.rd), Register(args.rt),
                                    Register(args.rs), "Right", "Logical"))
      [] OTHER -> no_task

\* VM::get_task: the first of the five lowerings that knows the instruction
get_task(inst) ==
    LET t1 == get_add_task(inst) IN
    IF t1.status # "Ok" \/ t1.some THEN Outcome(t1) @@ [task |-> t1.task] ELSE
    LET t2 == get_sub_task(inst) IN
    IF t2.status # "Ok" \/ t2.some THEN Outcome(t2) @@ [task |-> t2.task] ELSE
    LET t3 == get_mult_task(inst) IN
    IF t3.status # "Ok" \/ t3.some THEN Outcome(t3) @@ [task |-> t3.task] ELSE
    LET t4 == get_boolean_task(inst) IN
    IF t4.status # "Ok" \/ t4.some THEN Outcome(t4) @@ [task |-> t4.task] ELSE
    LET t5 == get_shift_task(inst) IN
    IF t5.status # "Ok" \/ t5.some THEN Outcome(t5) @@ [task |-> t5.task] ELSE
    RuntimeError_new(IllegalInstruction) @@ [task |-> NoTask]

\* `(value as i16) as u32` for a u16: sign extension
u32_from_i16(value) ==
    IF value >= 32768 THEN <<255, 255, value \div 256, value % 256>>
    ELSE u32_from(value)

\* VM::get_value_of_target
get_value_of_target(vm, target) ==
    CASE target.tag = "Register"  -> get_register(vm, target.reg)
      [] target.tag = "Immediate" ->
            IF target.ext = "Sign" THEN Ok @@ [value |-> u32_from_i16(target.value)]
            ELSE Ok @@ [value |-> u32_from(target.value)]

\* set_value_of_target returning without the write
set_value_of_target_dropped(vm, target, value) ==
    CASE target.tag = "Register"  -> Ok @@ [vm |-> vm]
      [] target.tag = "Immediate" -> Panic @@ [vm |-> vm]

\* VM::set_value_of_target
set_value_of_target(vm, target, value) ==
    CASE target.tag = "Register"  -> set_register(vm, target.reg, value)
      [] target.tag = "Immediate" -> Panic @@ [vm |-> vm]

\* whether a u32 shift amount is 32 or more, and its value modulo 32
shift_too_far(b) == b[1] # 0 \/ b[2] # 0 \/ b[3] # 0 \/ b[4] >= 32

shift_masked(b) == b[4] % 32

\* the arms of execute_task that read a and b, compute, and write dest
write_result(vm, dest, value) ==
    LET w == set_value_of_target(vm, dest, value) IN
    Outcome(w) @@ [trap |-> FALSE, vm |-> w.vm]

\* the early return of a trap taken after the destination had been written
trapped_after_write(vm, dest, value) ==
    Ok @@ [trap |-> TRUE, vm |-> set_value_of_target(vm, dest, value).vm]

\* `return Ok(Some(Trap::new(...)))` in the Add and Sub arms of execute_task,
\* taken before the destination is written
trapped(vm, dest, value) == Ok @@ [trap |-> TRUE, vm |-> vm]

\* VM::execute_task.  `a << b` and `a >> b` panic on an amount of 32 or more
\* in a build with overflow checks and take the amount modulo 32 in one
\* without; overflow_checks says which build runs.
execute_task(vm, task, overflow_checks) ==
    IF task.kind \notin {"Add", "Sub", "Mult", "And", "Or", "Xor", "Shift"}
    THEN Panic @@ [trap |-> FALSE, vm |-> vm]                 \* the `_ =>` arm
    ELSE
    LET ra == get_value_of_target(vm, task.a) IN
    IF ra.status # "Ok" THEN Outcome(ra) @@ [trap |-> FALSE, vm |-> vm] ELSE
    LET rb == get_value_of_target(vm, task.b) IN
    IF rb.status # "Ok" THEN Outcome(rb) @@ [trap |-> FALSE, vm |-> vm] ELSE
    LET a == ra.value
        b == rb.value
    IN
    CASE task.kind = "Add" ->
            LET sum == overflowing_add(a, b) IN
            IF task.overflow_trap /\ sum[2]
            THEN trapped(vm, task.dest, sum[1])
            ELSE write_result(vm, task.dest, sum[1])
      [] task.kind = "Sub" ->
            LET diff == overflowing_sub(a, b) IN
            IF task.overflow_trap /\ diff[2]
            THEN trapped(vm, task.dest, diff[1])
            ELSE write_result(vm, task.dest, diff[1])
      [] task.kind = "Mult" ->
            LET product == IF task.signed
                           THEN wrapping_mul64(u64_from_i32(a), u64_from_i32(b))
                           ELSE wrapping_mul64(u64_from_u32(a), u64_from_u32(b))
            IN  Ok @@ [trap |-> FALSE,
                       vm |-> set_lo(set_hi(vm, hi32(product)), lo32(product))]
      [] task.kind = "And" -> write_result(vm, task.dest, bitand(a, b))
      [] task.kind = "Or"  -> write_result(vm, task.dest, bitor(a, b))
      [] task.kind = "Xor" -> write_result(vm, task.dest, bitxor(a, b))
      [] task.kind = "Shift" ->
            IF shift_too_far(b) /\ overflow_checks
            THEN Panic @@ [trap |-> FALSE, vm |-> vm]
            ELSE LET n == shift_masked(b) IN
                 write_result(vm, task.dest,
                    CASE task.direction = "Left"  /\ task.shift_type = "Logical"    -> shl(a, n)
                      [] task.direction = "Left"  /\ task.shift_type = "Arithmetic" -> shl(a, n)
                      [] task.direction = "Right" /\ task.shift_type = "Logical"    -> shr(a, n)
                      [] task.direction = "Right" /\ task.shift_type = "Arithmetic" -> sar(a, n))

\* execute_instruction from `if !inst.is_null()` on, e being what
\* execute_task returns: its Err is dropped by `if let Ok(t)`, its panic is not
execute_lowered_end(inst, e) ==
    CASE e.status = "Panic" -> Panic @@ [inst |-> NoInstruction, trap |-> FALSE, vm |-> e.vm]
      [] e.status = "Ok"    -> Ok @@ [inst |-> inst, trap |-> e.trap, vm |-> e.vm]
      [] e.status = "Err"   -> Ok @@ [inst |-> inst, trap |-> FALSE, vm |-> e.vm]

\* execute_instruction once get_task has returned t for the decoded inst
execute_lowered(vm, inst, t, overflow_checks) ==
    IF t.status # "Ok"
    THEN Outcome(t) @@ [inst |-> NoInstruction, trap |-> FALSE, vm |-> vm]
    ELSE IF is_null(inst)
    THEN Ok @@ [inst |-> inst, trap |-> FALSE, vm |-> vm]
    ELSE execute_lowered_end(inst, execute_task(vm, t.task, overflow_checks))

\* execute_instruction once decode_instruction has returned d
execute_decoded(vm, d, overflow_checks) ==
    IF d.status # "Ok"
    THEN Outcome(d) @@ [inst |-> NoInstruction, trap |-> FALSE, vm |-> vm]
    ELSE execute_lowered(vm, d.inst, get_task(d.inst), overflow_checks)

\* VM::execute_instruction
execute_instruction(vm, instruction, overflow_checks) ==
    execute_decoded(vm, decode_instruction(instruction), overflow_checks)

\* fetch_instruction_code advancing the PC before it reads the word
fetched_advancing_first(vm, w) ==
    IF w.status # "Ok" THEN Outcome(w) @@ [instruction |-> Zero32, vm |-> set_pc(vm, vm.pc + 4)]
    ELSE Ok @@ [instruction |-> w.value, vm |-> set_pc(vm, vm.pc + 4)]

\* fetch_instruction_code leaving the PC where it was
fetched_in_place(vm, w) ==
    IF w.status # "Ok" THEN Outcome(w) @@ [instruction |-> Zero32, vm |-> vm]
    ELSE Ok @@ [instruction |-> w.value, vm |-> vm]

\* fetch_instruction_code once memory.get_word(pc) has returned w
fetched(vm, w) ==
    IF w.status # "Ok" THEN Outcome(w) @@ [instruction |-> Zero32, vm |-> vm]
    ELSE Ok @@ [instruction |-> w.value, vm |-> set_pc(vm, vm.pc + 4)]

\* VM::fetch_instruction_code
fetch_instruction_code(vm, overflow_checks) == fetched(vm, MemoryMap_get_word(vm.memory, vm.pc, overflow_checks))

\* run_single_instruction once fetch_instruction_code has returned f
run_fetched(vm, f, overflow_checks) ==
    IF f.status # "Ok"
    THEN Outcome(f) @@ [inst |-> NoInstruction, trap |-> FALSE, vm |-> f.vm]
    ELSE execute_instruction(f.vm, f.instruction, overflow_checks)

\* VM::run_single_instruction
run_single_instruction(vm, overflow_checks) ==
    run_fetched(vm, fetch_instruction_code(vm, overflow_checks), overflow_checks)

\* a turn of the loop of align_address that moves up whatever the direction
align_turn_upward(p, alignment, direction, overflow_checks) ==
    IF p.status # "Ok" \/ usize_rem(p.value, alignment) = 0 THEN p
    ELSE IF p.value = usize_MAX
    THEN IF overflow_checks THEN Panic @@ [value |-> p.value]
         ELSE Ok @@ [value |-> usize_from(0)]
    ELSE Ok @@ [value |-> usize_inc(p.value)]

\* one turn of the loop of align_address, p being the address the turns
\* before have left: an aligned address is left as it is; `address += 1` at
\* usize::MAX panics in a build with overflow checks and wraps to 0 in one
\* without
align_turn(p, alignment, direction, overflow_checks) ==
    IF p.status # "Ok" \/ usize_rem(p.value, alignment) = 0 THEN p
    ELSE IF direction = "Up"
    THEN IF p.value = usize_MAX
         THEN IF overflow_checks THEN Panic @@ [value |-> p.value]
              ELSE Ok @@ [value |-> usize_from(0)]
         ELSE Ok @@ [value |-> usize_inc(p.value)]
    ELSE Ok @@ [value |-> usize_dec(p.value)]

\* 8 turns of the loop from the address s
align_turns_8(s, alignment, direction, overflow_checks) ==
    LET at[k \in 0..8] ==
            IF k = 0 THEN s
            ELSE CHOOSE r \in {align_turn(p, alignment, direction, overflow_checks) :
                               p \in {at[k - 1]}} : TRUE
    IN  at[8]

\* 64 turns of the loop from the address s
align_turns_64(s, alignment, direction, overflow_checks) ==
    LET at[k \in 0..8] ==
            IF k = 0 THEN s
            ELSE CHOOSE r \in {align_turns_8(p, alignment, direction, overflow_checks) :
                               p \in {at[k - 1]}} : TRUE
    IN  at[8]

\* MemoryMap::align_address on the whole range of usize: the loop ends within
\* 254 turns, alignment being a u8; `% 0` panics
align_address(address, alignment, direction, overflow_checks) ==
    IF alignment = 0 THEN Panic @@ [value |-> address] ELSE
    LET at[k \in 0..4] ==
            IF k = 0 THEN Ok @@ [value |-> address]
            ELSE CHOOSE r \in {align_turns_64(p, alignment, direction, overflow_checks) :
                               p \in {at[k - 1]}} : TRUE
    IN  at[4]

-----------------------------------------------------------------------------
(* The canonical MIPS32 encodings (spec 6.2), used to write instruction words *)

enc_r(rs, rt, rd, shamt, funct) ==
    <<rs \div 8, (rs % 8) * 32 + rt, rd * 8 + shamt \div 4, (shamt % 4) * 64 + funct>>

enc_i(opcode, rs, rt, imm) ==
    <<opcode * 4 + rs \div 8, (rs % 8) * 32 + rt, imm \div 256, imm % 256>>

enc_j(opcode, address) ==
    <<opcode * 4 + address \div 16777216, (address \div 65536) % 256,
      (address \div 256) % 256, address % 256>>

-----------------------------------------------------------------------------
(* The machine under check *)

\* number of calls explored after the machine is set up
MaxCalls == 2

\* The layout of main, MemoryLayout::mars(0x1000, 0x1000), with its five
\* addresses and its two sizes scaled down together, in their order: text
\* [4,27], data [28,31], heap [32,35], stack [40,43], mmio [44,48]; addresses
\* 0..3, 36..39 and 49.. lie in no segment.  Text holds six words, so that
\* main's program of three words and the null word after it leave the PC in
\* text, as in mars, where text is far longer.  As in mars, text_low, data_low,
\* heap_low and mmio_high are multiples of 4, stack_high is 3 modulo 4, the
\* two sizes are multiples of 4, so that no word at a multiple of 4 crosses
\* the end of the heap, and heap and stack end well apart.
Layout == MemoryLayout(4, 28, 32, 48, 43, 4, 4)

\* operand values given to registers $9 and $10; 41 is an address in the
\* stack segment that is not a multiple of 4
Vals ==
    { <<0, 0, 0, 1>>, <<0, 0, 0, 41>>, <<127, 255, 255, 255>>, <<128, 0, 0, 0>>,
      <<255, 255, 255, 255>> }

NullWord == Zero32

\* instruction words put at PC
InstrWords ==
    { NullWord,
      enc_r(9, 10, 11, 0, 32),        \* add   $11, $9, $10
      enc_r(9, 10, 0, 0, 32),         \* add   $0,  $9, $10
      enc_r(9, 10, 11, 0, 33),        \* addu  $11, $9, $10
      enc_i(8, 9, 11, 1),             \* addi  $11, $9, 1
      enc_i(8, 9, 11, 65535),         \* addi  $11, $9, -1
      enc_i(9, 9, 11, 1),             \* addiu $11, $9, 1
      enc_i(9, 9, 11, 65535),         \* addiu $11, $9, -1
      enc_r(9, 10, 0, 0, 24),         \* mult  $9, $10
      enc_r(9, 10, 0, 0, 25),         \* multu $9, $10
      enc_i(4, 9, 10, 1),             \* beq   $9, $10, 1
      enc_j(2, 3),                    \* j     3
      <<252, 0, 0, 0>>,               \* opcode 63: no instruction
      enc_r(0, 0, 0, 0, 63),          \* funct 63: no instruction
      <<32, 10, 0, 42>>,              \* the bytes 20 0A 00 2A of spec scenario S1
      enc_i(8, 9, 10, 42),            \* addi  $10, $9, 42
      enc_i(35, 9, 10, 0),            \* lw    $10, 0($9)
      enc_r(9, 10, 11, 0, 39),        \* nor   $11, $9, $10
      <<0, 0, 0, 12>>,                \* syscall
      enc_r(9, 10, 11, 0, 34),        \* sub   $11, $9, $10
      enc_r(9, 10, 11, 0, 35),        \* subu  $11, $9, $10
      enc_r(9, 10, 11, 0, 4),         \* sllv  $11, $10, $9
      enc_r(9, 10, 11, 0, 6),         \* srlv  $11, $10, $9
      enc_r(9, 10, 11, 0, 7),         \* srav  $11, $10, $9
      enc_r(0, 10, 11, 4, 0),         \* sll   $11, $10, 4
      enc_r(0, 10, 11, 4, 2),         \* srl   $11, $10, 4
      enc_r(0, 10, 11, 4, 3),         \* sra   $11, $10, 4
      enc_r(9, 0, 0, 0, 26),          \* div   $9, $0
      enc_r(9, 0, 0, 0, 27) }         \* divu  $9, $0

\* instruction words handed to execute_instruction directly
ExecWords == { enc_r(9, 10, 0, 0, 32), enc_r(10, 11, 9, 0, 33) }

\* arguments of set_register and set_pc calls
RegisterArgs == {0, 9, 31, 32}

ValueArgs == { <<255, 255, 255, 255>> }

PcArgs == {4, 38}

\* arguments of set_hi and set_lo calls
HiLoArgs == { <<0, 0, 0, 7>> }

VMState == [registers |-> registers, memory |-> memory, pc |-> pc, hi |-> hi, lo |-> lo]

Install(vm) ==
    /\ registers' = vm.registers
    /\ memory' = vm.memory
    /\ pc' = vm.pc
    /\ hi' = vm.hi
    /\ lo' = vm.lo

\* what a call returned: the call, its outcome and what it handed back
Returned(op, args, r, inst, trap, value) ==
    [op |-> op, args |-> args, status |-> r.status, err |-> r.err,
     inst |-> inst, trap |-> trap, value |-> value]

Running == result.status # "Panic" /\ ncalls < MaxCalls

\* VM::new(layout) for the layout under check, the same machine in a build
\* with overflow checks and in one without
Constructed == CHOOSE vm \in {VM_new(Layout, overflow_checks).vm : overflow_checks \in BOOLEAN} : TRUE

\* the three words main stores: addiu $9, $0, -1; addiu $10, $0, 2;
\* mult $9, $10 (main.rs 29-31)
MainProgram == << <<36, 9, 255, 255>>, <<36, 10, 0, 2>>, <<1, 42, 0, 24>> >>

\* vm.memory.mut_segment_by_name("text").unwrap().allow_writes() (main.rs 17-18)
text_writable(vm) ==
    [vm EXCEPT !.memory.segments[segment_by_name(vm.memory, "text")] = allow_writes(@)]

\* text_ptr of main: the low address of text aligned upwards to 4 (main.rs 21-27)
text_pointer(vm, overflow_checks) ==
    usize_small(
        align_address(
            get_low_address(vm.memory.segments[segment_by_name(vm.memory, "text")],
                            overflow_checks).value,
            4, "Up", overflow_checks).value)

\* vm.memory.set_word(address, word) as main calls it, the machine left with
\* the memory the call leaves
word_set(vm, address, word, overflow_checks) ==
    [vm EXCEPT !.memory = MemoryMap_set_word(vm.memory, address, word, overflow_checks).memory]

\* main before its loop (main.rs 14-33), for a program of three words:
\* VM::new, the text segment made writable, the words stored at the aligned
\* start of text and the two words after it, PC set to the first
Loaded(program, overflow_checks) ==
    LET at[k \in 0..3] ==
            IF k = 0
            THEN CHOOSE v \in {text_writable(VM_new(Layout, overflow_checks).vm)} : TRUE
            ELSE CHOOSE v \in {word_set(m, p + 4 * (k - 1), program[k], overflow_checks) :
                               m \in {at[k - 1]},
                               p \in {text_pointer(at[0], overflow_checks)}} : TRUE
    IN  CHOOSE v \in {set_pc(m, p) : m \in {at[3]},
                                     p \in {text_pointer(at[0], overflow_checks)}} : TRUE

\* the operands a and b put into $9 and $10 with set_register
Operands(vm, a, b) == set_register(set_register(vm, 9, a).vm, 10, b).vm

\* the machines the calls are made on: main's own, and the ones set up as
\* main does for a program of one instruction followed by null words, with
\* operands given to $9 and $10
Machines ==
    {Loaded(MainProgram, overflow_checks) : overflow_checks \in BOOLEAN}
    \cup UNION { {Operands(vm, a, b) : a \in Vals, b \in Vals} :
                    vm \in {Loaded(<<word, NullWord, NullWord>>, overflow_checks) :
                               word \in InstrWords, overflow_checks \in BOOLEAN} }

Init ==
    \E vm \in Machines :
        /\ registers = vm.registers
        /\ memory = vm.memory
        /\ pc = vm.pc
        /\ hi = vm.hi
        /\ lo = vm.lo
        /\ result = Returned("main", <<>>, Ok, NoInstruction, FALSE, Zero32)
        /\ paused = TRUE
        /\ halted = FALSE
        /\ ncalls = 0

SetRegister(register, value) ==
    /\ Running
    /\ \E r \in {set_register(VMState, register, value)} :
       /\ Install(r.vm)
       /\ result' = Returned("set_register", <<register, value>>, r, NoInstruction, FALSE, Zero32)
    /\ ncalls' = ncalls + 1
    /\ UNCHANGED <<paused, halted>>

GetRegister(register) ==
    /\ Running
    /\ \E r \in {get_register(VMState, register)} :
          result' = Returned("get_register", <<register>>, r, NoInstruction, FALSE, r.value)
    /\ ncalls' = ncalls + 1
    /\ UNCHANGED <<paused, halted>>
    /\ UNCHANGED <<registers, memory, pc, hi, lo>>

SetPc(value) ==
    /\ Running
    /\ Install(set_pc(VMState, value))
    /\ result' = Returned("set_pc", <<value>>, Ok, NoInstruction, FALSE, Zero32)
    /\ ncalls' = ncalls + 1
    /\ UNCHANGED <<paused, halted>>

SetHi(value) ==
    /\ Running
    /\ Install(set_hi(VMState, value))
    /\ result' = Returned("set_hi", <<value>>, Ok, NoInstruction, FALSE, Zero32)
    /\ ncalls' = ncalls + 1
    /\ UNCHANGED <<paused, halted>>

SetLo(value) ==
    /\ Running
    /\ Install(set_lo(VMState, value))
    /\ result' = Returned("set_lo", <<value>>, Ok, NoInstruction, FALSE, Zero32)
    /\ ncalls' = ncalls + 1
    /\ UNCHANGED <<paused, halted>>

\* vm.fetch_instruction_code() called on its own: the word at PC is handed
\* back and PC is left after it
FetchInstructionCode(overflow_checks) ==
    /\ Running
    /\ \E r \in {fetch_instruction_code(VMState, overflow_checks)} :
       /\ Install(r.vm)
       /\ result' = Returned("fetch_instruction_code", <<>>, r, NoInstruction, FALSE,
                             r.instruction)
    /\ ncalls' = ncalls + 1
    /\ UNCHANGED <<paused, halted>>

RunSingleInstruction(overflow_checks) ==
    /\ Running
    /\ \E r \in {run_single_instruction(VMState, overflow_checks)} :
       /\ Install(r.vm)
       /\ result' = Returned("run_single_instruction", <<>>, r, r.inst, r.trap, Zero32)
    /\ ncalls' = ncalls + 1
    /\ UNCHANGED <<paused, halted>>

ExecuteInstruction(instruction, overflow_checks) ==
    /\ Running
    /\ \E r \in {execute_instruction(VMState, instruction, overflow_checks)} :
       /\ Install(r.vm)
       /\ result' = Returned("execute_instruction", <<instruction>>, r, r.inst, r.trap, Zero32)
    /\ ncalls' = ncalls + 1
    /\ UNCHANGED <<paused, halted>>

Next ==
    \/ \E register \in RegisterArgs, value \in ValueArgs : SetRegister(register, value)
    \/ \E register \in RegisterArgs : GetRegister(register)
    \/ \E value \in PcArgs : SetPc(value)
    \/ \E value \in HiLoArgs : SetHi(value)
    \/ \E value \in HiLoArgs : SetLo(value)
    \/ \E overflow_checks \in BOOLEAN : FetchInstructionCode(overflow_checks)
    \/ \E overflow_checks \in BOOLEAN : RunSingleInstruction(overflow_checks)
    \/ \E instruction \in ExecWords, overflow_checks \in BOOLEAN :
          ExecuteInstruction(instruction, overflow_checks)

Spec == Init /\ [][Next]_vars

-----------------------------------------------------------------------------
(* The memory map under check: the loads and stores of MemoryMap and the   *)
(* write protection switches, on the memory of a constructed machine.      *)

\* number of memory calls explored
MaxMemCalls == 2

\* addresses handed to the loads and stores: 3 in no segment; 4, 24 and 27
\* in text (24 its last word, 27 its last byte); 28 in data; 32, 33 and 34 in
\* heap; 36 the last byte of a heap of 5 bytes and in no segment of main's
\* machine; 40 the low end of stack; 48 the last byte of mmio
MemAddrs == {3, 4, 24, 27, 28, 32, 33, 34, 36, 40, 48}

ByteArgs == {171}

HalfwordArgs == {43981}

WordArgs == { <<222, 173, 190, 239>> }

SegmentNames == {"text", "heap"}

MemRunning == result.status # "Panic" /\ ncalls < MaxMemCalls

\* a machine as VM::new leaves it for the layout of main with a heap of one
\* byte more, whose heap [32,36] ends one byte after a multiple of 4, or as
\* main leaves it with its program loaded
InitMem ==
    \E vm \in { VM_new([Layout EXCEPT !.heap_size = 5], overflow_checks).vm :
                   overflow_checks \in BOOLEAN }
               \cup { Loaded(MainProgram, overflow_checks) : overflow_checks \in BOOLEAN } :
        /\ registers = vm.registers
        /\ memory = vm.memory
        /\ pc = vm.pc
        /\ hi = vm.hi
        /\ lo = vm.lo
        /\ result = Returned("main", <<>>, Ok, NoInstruction, FALSE, Zero32)
        /\ paused = TRUE
        /\ halted = FALSE
        /\ ncalls = 0

\* a load: memory is read and the value returned (a u8 or u16 is recorded
\* widened to 32 bits)
Load(op, address, r) ==
    /\ result' = Returned(op, <<address>>, r, NoInstruction, FALSE, r.value)
    /\ ncalls' = ncalls + 1
    /\ UNCHANGED <<paused, halted>>
    /\ UNCHANGED <<registers, memory, pc, hi, lo>>

\* a store: memory is left as the call left it
Store(op, address, value, r) ==
    /\ memory' = r.memory
    /\ result' = Returned(op, <<address, value>>, r, NoInstruction, FALSE, Zero32)
    /\ ncalls' = ncalls + 1
    /\ UNCHANGED <<paused, halted>>
    /\ UNCHANGED <<registers, pc, hi, lo>>

GetByte(address, overflow_checks) ==
    MemRunning /\ Load("get_byte", address,
                       [MemoryMap_get_byte(memory, address, overflow_checks) EXCEPT !.value = u32_from(@)])

GetHalfword(address, overflow_checks) ==
    MemRunning /\ Load("get_halfword", address,
                       [MemoryMap_get_halfword(memory, address, overflow_checks) EXCEPT !.value = u32_from(@)])

GetWord(address, overflow_checks) ==
    MemRunning /\ Load("get_word", address, MemoryMap_get_word(memory, address, overflow_checks))

SetByte(address, value, overflow_checks) ==
    MemRunning /\ Store("set_byte", address, value, MemoryMap_set_byte(memory, address, value, overflow_checks))

SetHalfword(address, value, overflow_checks) ==
    MemRunning /\ Store("set_halfword", address, value,
                        MemoryMap_set_halfword(memory, address, value, overflow_checks))

SetWord(address, value, overflow_checks) ==
    MemRunning /\ Store("set_word", address, value, MemoryMap_set_word(memory, address, value, overflow_checks))

\* vm.memory.mut_segment_by_name(name).unwrap().allow_writes(), as in main.rs 17-18
AllowWrites(name) ==
    /\ MemRunning
    /\ \E i \in {segment_by_name(memory, name)} :
          memory' = [memory EXCEPT !.segments[i] = allow_writes(@)]
    /\ result' = Returned("allow_writes", <<name>>, Ok, NoInstruction, FALSE, Zero32)
    /\ ncalls' = ncalls + 1
    /\ UNCHANGED <<paused, halted>>
    /\ UNCHANGED <<registers, pc, hi, lo>>

SetReadOnly(name) ==
    /\ MemRunning
    /\ \E i \in {segment_by_name(memory, name)} :
          memory' = [memory EXCEPT !.segments[i] = set_read_only(@)]
    /\ result' = Returned("set_read_only", <<name>>, Ok, NoInstruction, FALSE, Zero32)
    /\ ncalls' = ncalls + 1
    /\ UNCHANGED <<paused, halted>>
    /\ UNCHANGED <<registers, pc, hi, lo>>

NextMem ==
    \/ \E address \in MemAddrs, overflow_checks \in BOOLEAN :
          GetByte(address, overflow_checks)
    \/ \E address \in MemAddrs, overflow_checks \in BOOLEAN :
          GetHalfword(address, overflow_checks)
    \/ \E address \in MemAddrs, overflow_checks \in BOOLEAN :
          GetWord(address, overflow_checks)
    \/ \E address \in MemAddrs, value \in ByteArgs, overflow_checks \in BOOLEAN :
          SetByte(address, value, overflow_checks)
    \/ \E address \in MemAddrs, value \in HalfwordArgs, overflow_checks \in BOOLEAN :
          SetHalfword(address, value, overflow_checks)
    \/ \E address \in MemAddrs, value \in WordArgs, overflow_checks \in BOOLEAN :
          SetWord(address, value, overflow_checks)
    \/ \E name \in SegmentNames : AllowWrites(name)
    \/ \E name \in SegmentNames : SetReadOnly(name)

SpecMem == InitMem /\ [][NextMem]_vars

-----------------------------------------------------------------------------
(* The construction of a memory map under check: add_segment called on a    *)
(* map that starts empty.                                                   *)

\* number of add_segment calls explored
MaxSegments == 3

SegStarts == {0, 3, 4}

SegSizes == {0, 1, 4}

InitMap ==
    /\ registers = [r \in 0..31 |-> Zero32]
    /\ memory = MemoryMap_new
    /\ pc = 0
    /\ hi = Zero32
    /\ lo = Zero32
    /\ result = Returned("MemoryMap::new", <<>>, Ok, NoInstruction, FALSE, Zero32)
    /\ paused = TRUE
    /\ halted = FALSE
    /\ ncalls = 0

\* memory.add_segment(MemorySegment::new(...)); a panic, of new or of
\* add_segment, ends the run, and a panic of new leaves the map as it was
AddSegment(start_address, size, is_static, direction, overflow_checks) ==
    /\ result.status # "Panic"
    /\ ncalls < MaxSegments
    /\ \E r \in {IF n.status # "Ok" THEN Outcome(n) @@ [memory |-> memory]
                 ELSE add_segment(memory, n.segment, overflow_checks) :
                 n \in {MemorySegment_new("segment", start_address, size,
                                          is_static, direction, FALSE)}} :
       /\ memory' = r.memory
       /\ result' = Returned("add_segment", <<start_address, size, direction>>, r,
                             NoInstruction, FALSE, Zero32)
    /\ ncalls' = ncalls + 1
    /\ UNCHANGED <<paused, halted>>
    /\ UNCHANGED <<registers, pc, hi, lo>>

NextMap ==
    \E start_address \in SegStarts, size \in SegSizes,
       is_static \in BOOLEAN, direction \in {"Up", "Down"}, overflow_checks \in BOOLEAN :
        AddSegment(start_address, size, is_static, direction, overflow_checks)

SpecMap == InitMap /\ [][NextMap]_vars

-----------------------------------------------------------------------------
(* The decoder under check: an entry of the instruction table and a choice  *)
(* of operand fields are encoded, and the word is given to                  *)
(* decode_instruction.                                                      *)

\* operand fields put into the encoded words
FieldChoices ==
    { [rs |-> 0,  rt |-> 0,  rd |-> 0,  shamt |-> 0,  imm |-> 0,     address |-> 0],
      [rs |-> 9,  rt |-> 10, rd |-> 11, shamt |-> 0,  imm |-> 1,     address |-> 3],
      [rs |-> 31, rt |-> 1,  rd |-> 2,  shamt |-> 31, imm |-> 65535, address |-> 67108863] }

\* the canonical encoding of table entry base with operand fields f: R-format
\* words have opcode 0 and the entry's code as funct, I and J words have the
\* entry's code as opcode
Encode(base, f) ==
    CASE base.format = "R" -> enc_r(f.rs, f.rt, f.rd, f.shamt, base.opc_func)
      [] base.format = "I" -> enc_i(base.opc_func, f.rs, f.rt, f.imm)
      [] base.format = "J" -> enc_j(base.opc_func, f.address)

\* the record the encoded word stands for
Encoded(base, f) ==
    InstructionData(base,
        CASE base.format = "R" -> RFormat(f.rs, f.rt, f.rd, f.shamt, base.opc_func)
          [] base.format = "I" -> IFormat(f.rs, f.rt, f.imm)
          [] base.format = "J" -> JFormat(enc_j(0, f.address)))

InitDecode ==
    \E k \in 1..Len(ALL_INSTRUCTIONS), f \in FieldChoices :
        /\ registers = Constructed.registers
        /\ memory = Constructed.memory
        /\ pc = Constructed.pc
        /\ hi = Constructed.hi
        /\ lo = Constructed.lo
        /\ result = Returned("encode", <<k, f>>, Ok, Encoded(ALL_INSTRUCTIONS[k], f), FALSE,
                             Encode(ALL_INSTRUCTIONS[k], f))
        /\ paused = TRUE
        /\ halted = FALSE
        /\ ncalls = 0

\* decode_instruction applied to the encoded word
DecodeInstruction ==
    /\ result.op = "encode"
    /\ \E r \in {decode_instruction(result.value)} :
          result' = Returned("decode_instruction", result.args, r, r.inst, FALSE, result.value)
    /\ ncalls' = ncalls + 1
    /\ UNCHANGED <<paused, halted>>
    /\ UNCHANGED <<registers, memory, pc, hi, lo>>

NextDecode == DecodeInstruction

SpecDecode == InitDecode /\ [][NextDecode]_vars

-----------------------------------------------------------------------------
(* align_address under check: an address, an alignment and a direction are  *)
(* chosen and given to align_address on the memory map of a constructed     *)
(* machine.                                                                 *)

\* addresses given to align_address: 0..9 and the five highest of usize
AlignAddrs ==
    {usize_from(n) : n \in 0..9}
    \cup {<<255, 255, 255, 255, 255, 255, 255, b>> : b \in 251..255}

\* alignments given to align_address (a u8)
Alignments == {0, 1, 2, 3, 4, 8, 255}

\* the machine of main at its call of align_address: VM::new has left the
\* PC at text_low and the text segment has been made writable
InitAlign ==
    \E address \in AlignAddrs, alignment \in Alignments, direction \in {"Up", "Down"} :
        /\ registers = text_writable(Constructed).registers
        /\ memory = text_writable(Constructed).memory
        /\ pc = text_writable(Constructed).pc
        /\ hi = text_writable(Constructed).hi
        /\ lo = text_writable(Constructed).lo
        /\ result = Returned("input", <<address, alignment, direction>>, Ok, NoInstruction,
                             FALSE, address)
        /\ paused = TRUE
        /\ halted = FALSE
        /\ ncalls = 0

\* vm.memory.align_address(address, alignment, direction), which takes &self
AlignAddress(overflow_checks) ==
    /\ result.op = "input"
    /\ \E r \in {align_address(result.args[1], result.args[2], result.args[3],
                                     overflow_checks)} :
          result' = Returned("align_address", result.args, r, NoInstruction, FALSE, r.value)
    /\ ncalls' = ncalls + 1
    /\ UNCHANGED <<paused, halted>>
    /\ UNCHANGED <<registers, memory, pc, hi, lo>>

NextAlign == \E overflow_checks \in BOOLEAN : AlignAddress(overflow_checks)

SpecAlign == InitAlign /\ [][NextAlign]_vars

-----------------------------------------------------------------------------
(* The loop of the embedder (main.rs 34-82) under check: each turn runs a   *)
(* step of the machine unless paused or halted, shows the machine to the    *)
(* viewer and waits, then applies the event the viewer returns.             *)

\* number of turns of the loop explored
MaxIterations == 6

\* programs main is run with: its own; null words; one that traps at its
\* second step (sub of 0 and 1); a word no table entry matches; one that
\* shifts by 32
MainPrograms ==
    { MainProgram,
      <<NullWord, NullWord, NullWord>>,
      <<enc_i(9, 0, 9, 1), enc_r(0, 9, 11, 0, 34), NullWord>>,
      <<<<252, 0, 0, 0>>, NullWord, NullWord>>,
      <<enc_i(9, 0, 9, 32), enc_r(9, 10, 11, 0, 4), NullWord>> }

\* what ui.update returns: Ok(None), Ok(TogglePause), Ok(Quit) or Err(e)
Events == {"None", "TogglePause", "Quit", "Err"}

\* the match on what the step returned that leaves `halted` set for a null
\* instruction and an Err, and not for a trap
halted_after_ignoring_trap(h, r) ==
    IF r.status = "Ok"
    THEN IF is_null(r.inst) THEN TRUE ELSE h
    ELSE TRUE

\* `halted` after the match on what run_single_instruction returned r
halted_after(h, r) ==
    IF r.status = "Ok"
    THEN IF is_null(r.inst) \/ r.trap THEN TRUE ELSE h
    ELSE TRUE

\* main before its loop: the machine set up with a program, paused and not
\* halted
InitMain ==
    \E vm \in {Loaded(program, overflow_checks) :
                    program \in MainPrograms, overflow_checks \in BOOLEAN} :
        /\ registers = vm.registers
        /\ memory = vm.memory
        /\ pc = vm.pc
        /\ hi = vm.hi
        /\ lo = vm.lo
        /\ paused = TRUE
        /\ halted = FALSE
        /\ result = Returned("main", <<>>, Ok, NoInstruction, FALSE, Zero32)
        /\ ncalls = 0

\* the loop goes on: no `break` on Quit, no panic in the step or on an Err of
\* the viewer
MainRunning ==
    /\ ncalls < MaxIterations
    /\ result.status # "Panic"
    /\ ~(result.op = "main_loop" /\ result.args[2] \in {"Quit", "Err"})

\* the first half of a turn of the loop (main.rs 42-63): a step of the
\* machine unless paused or halted, and `halted` set from what it returned;
\* main then hands the machine, paused and halted to ui.update and waits
\* there for the event.  result records whether the step was run and what it
\* returned
MainStep(overflow_checks) ==
    /\ MainRunning
    /\ result.op # "main_step"
    /\ IF ~paused /\ ~halted
       THEN \E r \in {run_single_instruction(VMState, overflow_checks)} :
               /\ Install(r.vm)
               /\ halted' = IF r.status = "Panic" THEN halted ELSE halted_after(halted, r)
               /\ result' = Returned("main_step", <<TRUE>>, r, r.inst, r.trap, Zero32)
       ELSE /\ UNCHANGED <<registers, memory, pc, hi, lo, halted>>
            /\ result' = Returned("main_step", <<FALSE>>, Ok, NoInstruction, FALSE, Zero32)
    /\ UNCHANGED <<paused, ncalls>>

\* the second half of the turn (main.rs 65-80): ui.update returns event and
\* main applies it; result keeps what the step returned and records the event
MainEvent(event) ==
    /\ MainRunning
    /\ result.op = "main_step"
    /\ paused' = IF event = "TogglePause" /\ ~halted THEN ~paused ELSE paused
    /\ result' = [result EXCEPT !.op = "main_loop", !.args = <<result.args[1], event>>]
    /\ ncalls' = ncalls + 1
    /\ UNCHANGED <<registers, memory, pc, hi, lo, halted>>

NextMain ==
    \/ \E overflow_checks \in BOOLEAN : MainStep(overflow_checks)
    \/ \E event \in Events : MainEvent(event)

SpecMain == InitMain /\ [][NextMain]_vars

-----------------------------------------------------------------------------
(* Arithmetic of the specification, on 16-bit halves and by shift-and-add,  *)
(* against which the machine's results are compared.                        *)

\* the outcome of reading the word at an address of the machine's memory; no
\* bound of the segments of Layout leaves usize, so the two builds read alike
WordAt(mem, address) == MemoryMap_get_word(mem, address, TRUE)

\* the index of the segment of the machine's memory that holds an address, 0
\* for none
SegmentAt(mem, address) == get_segment(mem, address, TRUE).index

\* the bounds of a segment as numbers, for a segment whose bounds stay in usize
LowOf(seg) == usize_small(get_low_address(seg, TRUE).value)

HighOf(seg) == usize_small(get_high_address(seg, TRUE).value)

Hi16(w) == w[1] * 256 + w[2]

Lo16(w) == w[3] * 256 + w[4]

\* the high half read as a signed 16-bit number
SignedHi16(w) == Hi16(w) - (IF w[1] >= 128 THEN 65536 ELSE 0)

WordOf(h, l) == <<h \div 256, h % 256, l \div 256, l % 256>>

\* (a + b) mod 2^32
SumMod32(a, b) ==
    WordOf((Hi16(a) + Hi16(b) + (Lo16(a) + Lo16(b)) \div 65536) % 65536,
           (Lo16(a) + Lo16(b)) % 65536)

\* whether the sum of a and b, read as signed 32-bit numbers, is one
SignedSumFits(a, b) ==
    LET h == SignedHi16(a) + SignedHi16(b) + (Lo16(a) + Lo16(b)) \div 65536
    IN  h >= -32768 /\ h <= 32767

\* a 16-bit immediate sign-extended to 32 bits
SignExtend16(imm) == WordOf(IF imm >= 32768 THEN 65535 ELSE 0, imm)

\* the two's complement of a byte string: every byte inverted, and one added
\* to the bytes that the carry reaches
Negate(x) ==
    [i \in 1..Len(x) |->
        ((255 - x[i]) + (IF \A j \in (i + 1)..Len(x) : x[j] = 0 THEN 1 ELSE 0)) % 256]

\* a word as three digits of 11 bits, the least significant first
Limbs(w) ==
    << (w[3] % 8) * 256 + w[4],
       (w[2] % 64) * 32 + w[3] \div 8,
       w[1] * 4 + w[2] \div 64 >>

\* the 64-bit product of two words read as unsigned numbers: long
\* multiplication on the digits of 11 bits, then the bytes of the result
UnsignedProduct(a, b) ==
    LET x == Limbs(a)
        y == Limbs(b)
        term(i, k) == IF k - i \in 0..2 THEN x[i + 1] * y[k - i + 1] ELSE 0
        col[k \in 0..5] == term(0, k) + term(1, k) + term(2, k)
        acc[k \in 0..5] == IF k = 0 THEN col[0] ELSE col[k] + acc[k - 1] \div 2048
        bitat(i) == ((acc[i \div 11] % 2048) \div (2 ^ (i % 11))) % 2
        byte(k) == bitat(8 * k) + 2 * bitat(8 * k + 1) + 4 * bitat(8 * k + 2)
                   + 8 * bitat(8 * k + 3) + 16 * bitat(8 * k + 4) + 32 * bitat(8 * k + 5)
                   + 64 * bitat(8 * k + 6) + 128 * bitat(8 * k + 7)
    IN  <<byte(7), byte(6), byte(5), byte(4), byte(3), byte(2), byte(1), byte(0)>>

Magnitude(a) == IF a[1] >= 128 THEN Negate(a) ELSE a

\* the 64-bit two's-complement product of two words read as signed numbers
SignedProduct(a, b) ==
    IF (a[1] >= 128) # (b[1] >= 128)
    THEN Negate(UnsignedProduct(Magnitude(a), Magnitude(b)))
    ELSE UnsignedProduct(Magnitude(a), Magnitude(b))

\* the fields of an instruction word (spec 6.2)
OpcodeOf(w) == w[1] \div 4

RsOf(w) == (w[1] % 4) * 8 + w[2] \div 32

RtOf(w) == w[2] % 32

RdOf(w) == w[3] \div 8

FunctOf(w) == w[4] % 64

ImmOf(w) == w[3] * 256 + w[4]

\* a step of the machine has just returned Ok
StepRan ==
    /\ result'.op \in {"run_single_instruction", "execute_instruction"}
    /\ result'.status = "Ok"

\* the instruction word that step executed
StepWord ==
    IF result'.op = "execute_instruction" THEN result'.args[1]
    ELSE WordAt(memory, pc).value

\* the segments of mem that hold all of the addresses low..high
SegmentsHolding(mem, low, high) ==
    {i \in 1..Len(mem.segments) :
        /\ LowOf(mem.segments[i]) <= low
        /\ high <= HighOf(mem.segments[i])}

StoreOps == {"set_byte", "set_halfword", "set_word"}

-----------------------------------------------------------------------------
(* Properties *)

\* C1: register 0 is hard-wired to zero: after any sequence of set_register,
\* set_pc, run_single_instruction and execute_instruction calls on a
\* constructed machine, get_register(0) returns Ok(0).
C1_RegisterZero ==
    /\ get_register(VMState, 0).status = "Ok"
    /\ get_register(VMState, 0).value = Zero32

\* set_register(0, v) with v # 0 was called and refused, and register 0 reads 0
C1_Witness ==
    /\ result.op = "set_register"
    /\ result.args[1] = 0
    /\ result.args[2] # Zero32
    /\ result.status = "Err"
    /\ result.err = IllegalRegisterAccess
    /\ get_register(VMState, 0).value = Zero32

\* C2, as amended: for every address A with A % 4 = 0 whose four bytes A..A+3
\* all lie inside one writable segment that is not static, and every value V,
\* set_word(A, V) succeeds and a following get_word(A) returns V.
C2_WordRoundTrip ==
    [][ ( /\ result'.op = "set_word"
          /\ result'.args[1] % 4 = 0
          /\ \E i \in SegmentsHolding(memory, result'.args[1], result'.args[1] + 3) :
                ~memory.segments[i].read_only /\ ~memory.segments[i].is_static )
        => ( /\ result'.status = "Ok"
             /\ WordAt(memory', result'.args[1]).status = "Ok"
             /\ WordAt(memory', result'.args[1]).value = result'.args[2] ) ]_vars

\* a word was stored at the start of the heap, whose size is not a multiple of
\* 4, and reads back
C2_Witness ==
    /\ result.op = "set_word"
    /\ result.args[1] = 32
    /\ result.status = "Ok"
    /\ memory.segments[segment_by_name(memory, "heap")].size % 4 # 0
    /\ WordAt(memory, 32).value = result.args[2]

\* C2, as stated: the round trip holds for every address A with A % 4 = 0 that
\* lies inside a writable segment that is not static, the last aligned address
\* of a segment whose size is not a multiple of 4 included.
C2_WordRoundTripEveryAddress ==
    [][ ( /\ result'.op = "set_word"
          /\ result'.args[1] % 4 = 0
          /\ \E i \in SegmentsHolding(memory, result'.args[1], result'.args[1]) :
                ~memory.segments[i].read_only /\ ~memory.segments[i].is_static )
        => ( /\ result'.status = "Ok"
             /\ WordAt(memory', result'.args[1]).status = "Ok"
             /\ WordAt(memory', result'.args[1]).value = result'.args[2] ) ]_vars

\* C3: set_word(A, _) with A % 4 # 0 and set_halfword(A, _) with A % 2 # 0
\* fail with IllegalMemoryAccess and leave every segment as it was.
C3_MisalignedStoreRejected ==
    [][ ( \/ result'.op = "set_word" /\ result'.args[1] % 4 # 0
          \/ result'.op = "set_halfword" /\ result'.args[1] % 2 # 0 )
        => ( /\ result'.status = "Err"
             /\ result'.err = IllegalMemoryAccess
             /\ memory' = memory ) ]_vars

\* a misaligned set_word into a writable segment that holds a byte written
\* before was refused
C3_Witness ==
    /\ result.op = "set_word"
    /\ result.args[1] % 4 # 0
    /\ result.status = "Err"
    /\ \E i \in SegmentsHolding(memory, result.args[1], result.args[1] + 3) :
          /\ ~memory.segments[i].read_only
          /\ Len(memory.segments[i].data) > 0

\* C4: a store addressed to a read-only segment fails with IllegalMemoryAccess
\* and changes no segment, and the content of a segment changes only in a call
\* made while the segment is writable.
C4_WriteProtection ==
    [][ /\ ( ( /\ result'.op \in StoreOps
               /\ \E i \in SegmentsHolding(memory, result'.args[1], result'.args[1]) :
                     memory.segments[i].read_only )
             => ( /\ result'.status = "Err"
                  /\ result'.err = IllegalMemoryAccess
                  /\ memory' = memory ) )
        /\ \A i \in 1..Len(memory.segments) :
              memory.segments[i].read_only =>
                 memory'.segments[i].data = memory.segments[i].data ]_vars

\* the text segment, loaded with a word and made read-only again, refused a
\* set_word and still holds the word
C4_Witness ==
    /\ result.op = "set_word"
    /\ result.args[1] = 4
    /\ result.status = "Err"
    /\ memory.segments[segment_by_name(memory, "text")].read_only
    /\ WordAt(memory, 4).value = MainProgram[1]

\* the closed range of a segment as the specification gives it: from
\* start_address up over size bytes, or down from it
RangeLow(seg) ==
    IF seg.direction = "Up" THEN seg.start_address ELSE seg.start_address - seg.size + 1

RangeHigh(seg) ==
    IF seg.direction = "Up" THEN seg.start_address + seg.size - 1 ELSE seg.start_address

\* C5, as stated: after add_segment calls that each returned normally, the
\* closed ranges [low, high] of any two distinct segments share no address.
C5_SegmentsDisjoint ==
    result.status # "Panic" =>
        \A i, j \in 1..Len(memory.segments) :
            i # j =>
                \/ RangeHigh(memory.segments[i]) < RangeLow(memory.segments[j])
                \/ RangeHigh(memory.segments[j]) < RangeLow(memory.segments[i])

\* C6, as stated: a step of add rd, rs, rt or addi rt, rs, imm returns a trap
\* exactly when the sum of the operands, read as signed 32-bit numbers (imm
\* sign-extended), is not a signed 32-bit number, and a trapping step leaves
\* the destination register as it was.
C6_SignedOverflowTrap ==
    [][ ( /\ StepRan
          /\ \/ OpcodeOf(StepWord) = 0 /\ FunctOf(StepWord) = 32
             \/ OpcodeOf(StepWord) = 8 )
        => ( /\ result'.trap <=>
                   ~SignedSumFits(registers[RsOf(StepWord)],
                                  IF OpcodeOf(StepWord) = 0
                                  THEN registers[RtOf(StepWord)]
                                  ELSE SignExtend16(ImmOf(StepWord)))
             /\ result'.trap =>
                   \A r \in 0..31 : registers'[r] = registers[r] ) ]_vars

\* C7: a step of addu rd, rs, rt or addiu rt, rs, imm with a destination other
\* than register 0 returns no trap and leaves (a + b) mod 2^32 in the
\* destination, imm being sign-extended.
C7_UnsignedAddWraps ==
    [][ StepRan =>
          \A w \in {StepWord} :
              ( \/ /\ OpcodeOf(w) = 0
                   /\ FunctOf(w) = 33
                   /\ RdOf(w) # 0
                \/ /\ OpcodeOf(w) = 9
                   /\ RtOf(w) # 0 )
              => ( /\ ~result'.trap
                   /\ registers'[IF OpcodeOf(w) = 0 THEN RdOf(w) ELSE RtOf(w)]
                         = SumMod32(registers[RsOf(w)],
                                    IF OpcodeOf(w) = 0
                                    THEN registers[RtOf(w)]
                                    ELSE SignExtend16(ImmOf(w))) ) ]_vars

\* addu $11, $9, $10 ran with $9 = 0x7FFFFFFF and $10 = 1: no trap and
\* $11 = 0x80000000
C7_Witness ==
    /\ result.op = "run_single_instruction"
    /\ result.status = "Ok"
    /\ WordAt(memory, pc - 4).value = enc_r(9, 10, 11, 0, 33)
    /\ registers[9] = <<127, 255, 255, 255>>
    /\ registers[10] = <<0, 0, 0, 1>>
    /\ registers[11] = <<128, 0, 0, 0>>
    /\ ~result.trap

\* whether an instruction word is a branch or a jump: j, jal, beq, bne, blez,
\* bgtz, jr, jalr
IsControlFlow(w) ==
    \/ OpcodeOf(w) \in {2, 3, 4, 5, 6, 7}
    \/ OpcodeOf(w) = 0 /\ FunctOf(w) \in {8, 9}

\* C8: when run_single_instruction returns Ok for an instruction word that is
\* not a branch or jump, the PC after the call is the PC before it plus 4.
C8_PcAdvance ==
    [][ ( /\ result'.op = "run_single_instruction"
          /\ result'.status = "Ok"
          /\ ~IsControlFlow(WordAt(memory, pc).value) )
        => pc' = pc + 4 ]_vars

\* an add was run from the start of text and the PC stands one word further
C8_Witness ==
    /\ result.op = "run_single_instruction"
    /\ result.status = "Ok"
    /\ result.inst.base.name = "add"
    /\ ~IsControlFlow(WordAt(memory, Layout.text_low).value)
    /\ pc = Layout.text_low + 4

\* C9: after a step of mult rs, rt that returned Ok, HI and LO together hold
\* the 64-bit two's-complement product of the two registers read as signed
\* numbers; after multu rs, rt, their product read as unsigned numbers.
C9_MultiplyProduct ==
    [][ StepRan =>
          \A w \in {StepWord} :
              (OpcodeOf(w) = 0 /\ FunctOf(w) \in {24, 25})
              => hi' \o lo' =
                    IF FunctOf(w) = 24
                    THEN SignedProduct(registers[RsOf(w)], registers[RtOf(w)])
                    ELSE UnsignedProduct(registers[RsOf(w)], registers[RtOf(w)]) ]_vars

\* mult $9, $10 ran with a negative $9 and a positive $10 and left a negative
\* product in HI and LO
C9_Witness ==
    /\ result.op = "run_single_instruction"
    /\ result.status = "Ok"
    /\ result.inst.base.name = "mult"
    /\ registers[9] = <<128, 0, 0, 0>>
    /\ registers[10] = <<127, 255, 255, 255>>
    /\ hi = <<192, 0, 0, 0>>
    /\ lo = <<128, 0, 0, 0>>

\* C10, as stated: for every entry of the instruction table and every choice
\* of operand fields, decode_instruction of the canonical encoding returns a
\* record with the entry's mnemonic and format and the same operand fields.
C10_DecodeRoundTrip ==
    result.op = "decode_instruction" =>
        /\ result.status = "Ok"
        /\ result.inst.base.name = ALL_INSTRUCTIONS[result.args[1]].name
        /\ result.inst.base.format = ALL_INSTRUCTIONS[result.args[1]].format
        /\ result.inst.args = Encoded(ALL_INSTRUCTIONS[result.args[1]], result.args[2]).args

\* a call of run_single_instruction whose fetch of the word at PC succeeded
RunFetched ==
    /\ result'.op = "run_single_instruction"
    /\ WordAt(memory, pc).status = "Ok"

\* the word that call fetched
RunWord == WordAt(memory, pc).value

\* C11, as stated: a word with opcode 0 decodes to an R-format entry chosen
\* by its funct, and a word with another opcode decodes to an I- or J-format
\* entry chosen by its opcode.
C11_FormatDiscrimination ==
    (result.op = "decode_instruction" /\ result.status = "Ok") =>
        IF OpcodeOf(result.value) = 0
        THEN /\ result.inst.base.format = "R"
             /\ result.inst.base.opc_func = FunctOf(result.value)
        ELSE /\ result.inst.base.format \in {"I", "J"}
             /\ result.inst.base.opc_func = OpcodeOf(result.value)

\* C12: when the word at PC is 0x00000000, run_single_instruction returns Ok
\* with a record for which is_null is true and no trap; registers, HI, LO and
\* memory are unchanged and the PC has advanced by 4.
C12_HaltSentinel ==
    [][ (RunFetched /\ RunWord = Zero32)
        => ( /\ result'.status = "Ok"
             /\ is_null(result'.inst)
             /\ ~result'.trap
             /\ registers' = registers
             /\ hi' = hi
             /\ lo' = lo
             /\ memory' = memory
             /\ pc' = pc + 4 ) ]_vars

\* the all-zero word was run after another instruction had left the PC on it
C12_Witness ==
    /\ result.op = "run_single_instruction"
    /\ result.status = "Ok"
    /\ is_null(result.inst)
    /\ ncalls = 2
    /\ pc = Layout.text_low + 8
    /\ WordAt(memory, pc - 4).value = Zero32

\* C13, as amended: the word of bytes 20 0A 00 2A has rs = 0 and is
\* addi $10, $0, 42: with $9 = 1 its step returns Ok without a trap, leaves
\* $10 = 42 and $9 = 1 and advances the PC by 4.  The word of
\* addi $10, $9, 42 is 21 2A 00 2A, and its step leaves $10 = 43.
C13_ScenarioS1 ==
    [][ (RunFetched /\ registers[9] = <<0, 0, 0, 1>>
                    /\ RunWord \in { <<32, 10, 0, 42>>, <<33, 42, 0, 42>> })
        => ( /\ result'.status = "Ok"
             /\ ~result'.trap
             /\ registers'[10] = IF RunWord = <<32, 10, 0, 42>>
                                 THEN <<0, 0, 0, 42>> ELSE <<0, 0, 0, 43>>
             /\ registers'[9] = <<0, 0, 0, 1>>
             /\ pc' = pc + 4 ) ]_vars

\* the word of bytes 20 0A 00 2A was run with $9 = 1 and left $10 = 42
C13_Witness ==
    /\ result.op = "run_single_instruction"
    /\ result.status = "Ok"
    /\ WordAt(memory, pc - 4).value = <<32, 10, 0, 42>>
    /\ registers[9] = <<0, 0, 0, 1>>
    /\ registers[10] = <<0, 0, 0, 42>>

\* C13, as stated: with $9 = 1 the step of the word of bytes 20 0A 00 2A
\* leaves $10 = 43 and $9 = 1, advances the PC by 4 and returns no trap.
C13_ScenarioS1AsWritten ==
    [][ (RunFetched /\ registers[9] = <<0, 0, 0, 1>> /\ RunWord = <<32, 10, 0, 42>>)
        => ( /\ result'.status = "Ok"
             /\ ~result'.trap
             /\ registers'[10] = <<0, 0, 0, 43>>
             /\ registers'[9] = <<0, 0, 0, 1>>
             /\ pc' = pc + 4 ) ]_vars

\* C14, as stated: with $9 an address in the stack segment that is not a
\* multiple of 4 and lw $10, 0($9) at PC, run_single_instruction returns Err
\* with IllegalMemoryAccess and $10 is unchanged.
C14_ScenarioS6 ==
    [][ ( /\ RunFetched
          /\ RunWord = enc_i(35, 9, 10, 0)
          /\ registers[9] = <<0, 0, 0, 41>>
          /\ SegmentsHolding(memory, 41, 41) = {segment_by_name(memory, "stack")} )
        => ( /\ result'.status = "Err"
             /\ result'.err = IllegalMemoryAccess
             /\ registers'[10] = registers[10] ) ]_vars

\* the state a call leaves
PostState ==
    [registers |-> registers', memory |-> memory', pc |-> pc', hi |-> hi', lo |-> lo']

\* C15: set_register(0, v) and set_register(i, v) with i > 31 return
\* IllegalRegisterAccess and leave the registers, PC, HI and LO unchanged;
\* get_register(i) with i > 31 returns IllegalRegisterAccess; for 1 <= i <= 31
\* set_register(i, v) succeeds, changes register i only, and a following
\* get_register(i) returns v.
C15_RegisterErrorContract ==
    [][ /\ ( (result'.op = "set_register" /\ (result'.args[1] = 0 \/ result'.args[1] > 31))
             => ( /\ result'.status = "Err"
                  /\ result'.err = IllegalRegisterAccess
                  /\ registers' = registers /\ pc' = pc /\ hi' = hi /\ lo' = lo ) )
        /\ ( (result'.op = "set_register" /\ result'.args[1] \in 1..31)
             => ( /\ result'.status = "Ok"
                  /\ \A r \in 0..31 : r # result'.args[1] => registers'[r] = registers[r]
                  /\ get_register(PostState, result'.args[1]).status = "Ok"
                  /\ get_register(PostState, result'.args[1]).value = result'.args[2]
                  /\ pc' = pc /\ hi' = hi /\ lo' = lo ) )
        /\ ( (result'.op = "get_register" /\ result'.args[1] > 31)
             => ( /\ result'.status = "Err"
                  /\ result'.err = IllegalRegisterAccess ) )
        /\ ( (result'.op = "get_register" /\ result'.args[1] <= 31)
             => ( /\ result'.status = "Ok"
                  /\ result'.value = registers[result'.args[1]] ) ) ]_vars

\* set_register(32, v) was refused after set_register(31, v) had written $31
C15_Witness ==
    /\ result.op = "set_register"
    /\ result.args[1] = 32
    /\ result.status = "Err"
    /\ result.err = IllegalRegisterAccess
    /\ registers[31] # Zero32

\* C16, as stated: run_single_instruction returns Ok or Err and never panics.
C16_StepTotality ==
    result.op = "run_single_instruction" => result.status \in {"Ok", "Err"}

\* C17, as stated: the step of syscall (opcode 0, funct 12) returns Ok with a
\* trap and changes no register, HI, LO or memory.
C17_SyscallTraps ==
    [][ (RunFetched /\ RunWord = <<0, 0, 0, 12>>)
        => ( /\ result'.status = "Ok"
             /\ result'.trap
             /\ registers' = registers
             /\ hi' = hi
             /\ lo' = lo
             /\ memory' = memory ) ]_vars

\* the codes of the entries of the instruction table
TableCodes == {ALL_INSTRUCTIONS[k].opc_func : k \in 1..Len(ALL_INSTRUCTIONS)}

\* no entry of the instruction table has the code of the word: its funct when
\* the opcode is 0, its opcode otherwise
NoEntry(w) == (IF OpcodeOf(w) = 0 THEN FunctOf(w) ELSE OpcodeOf(w)) \notin TableCodes

\* C18: for a word whose code no table entry has, decode_instruction returns
\* IllegalInstruction, and the step of such a word returns
\* Err(IllegalInstruction) with registers, HI, LO and memory unchanged.
C18_IllegalInstruction ==
    [][ (result'.op = "execute_instruction" \/ RunFetched) =>
          \A w \in {StepWord} :
              NoEntry(w)
              => ( /\ decode_instruction(w).status = "Err"
                   /\ decode_instruction(w).err = IllegalInstruction
                   /\ result'.status = "Err"
                   /\ result'.err = IllegalInstruction
                   /\ registers' = registers
                   /\ hi' = hi
                   /\ lo' = lo
                   /\ memory' = memory ) ]_vars

\* a word with opcode 0 and funct 63 was fetched and refused
C18_Witness ==
    /\ result.op = "run_single_instruction"
    /\ result.status = "Err"
    /\ result.err = IllegalInstruction
    /\ WordAt(memory, pc - 4).value = enc_r(0, 0, 0, 0, 63)
    /\ NoEntry(WordAt(memory, pc - 4).value)

\* C19, as stated: get_word(A) with A % 4 # 0 and get_halfword(A) with
\* A % 2 # 0 fail with IllegalMemoryAccess, whatever segment holds the bytes.
C19_MisalignedLoadRejected ==
    [][ ( \/ result'.op = "get_word" /\ result'.args[1] % 4 # 0
          \/ result'.op = "get_halfword" /\ result'.args[1] % 2 # 0 )
        => ( /\ result'.status = "Err"
             /\ result'.err = IllegalMemoryAccess ) ]_vars

\* the number of bytes a load or store touches
SpanOf(op) == IF op \in {"get_halfword", "set_halfword"} THEN 2 ELSE 4

\* C20: a halfword or word load or store whose bytes addr..addr+N-1 do not
\* all lie inside one segment fails with IllegalMemoryAccess.
C20_NoSplitAccess ==
    [][ ( /\ result'.op \in {"get_halfword", "get_word", "set_halfword", "set_word"}
          /\ SegmentsHolding(memory, result'.args[1],
                             result'.args[1] + SpanOf(result'.op) - 1) = {} )
        => ( /\ result'.status = "Err"
             /\ result'.err = IllegalMemoryAccess ) ]_vars

\* a word load at the last byte of text, whose other bytes lie in data, failed
C20_Witness ==
    /\ result.op = "get_word"
    /\ result.args[1] = 27
    /\ result.status = "Err"
    /\ SegmentsHolding(memory, 27, 27) = {segment_by_name(memory, "text")}
    /\ SegmentsHolding(memory, 28, 30) = {segment_by_name(memory, "data")}

\* the shamt field of an instruction word (spec 6.2)
ShamtOf(w) == (w[3] % 8) * 4 + w[4] \div 64

\* the low 26 bits of an instruction word
AddressOf(w) == <<w[1] % 4, w[2], w[3], w[4]>>

\* C21: for every word that decodes, an R-format record has rs = (I>>21)&0x1F,
\* rt = (I>>16)&0x1F, rd = (I>>11)&0x1F, shamt = (I>>6)&0x1F and
\* funct = I&0x3F, an I-format record has the same rs and rt and
\* imm = I&0xFFFF, a J-format record has address = I&0x03FFFFFF; decoding
\* leaves the registers, PC, HI, LO and memory as VM::new made them.
C21_FieldExtraction ==
    (result.op = "decode_instruction" /\ result.status = "Ok") =>
        /\ CASE result.inst.base.format = "R" ->
                   result.inst.args = RFormat(RsOf(result.value), RtOf(result.value),
                                              RdOf(result.value), ShamtOf(result.value),
                                              FunctOf(result.value))
             [] result.inst.base.format = "I" ->
                   result.inst.args = IFormat(RsOf(result.value), RtOf(result.value),
                                              ImmOf(result.value))
             [] result.inst.base.format = "J" ->
                   result.inst.args = JFormat(AddressOf(result.value))
        /\ registers = Constructed.registers
        /\ memory = Constructed.memory
        /\ pc = Constructed.pc /\ hi = Zero32 /\ lo = Zero32

\* the word of srav with rs 31, rt 1, rd 2 and shamt 31 was decoded into an
\* R-format record
C21_Witness ==
    /\ result.op = "decode_instruction"
    /\ result.status = "Ok"
    /\ result.value = enc_r(31, 1, 2, 31, 7)
    /\ result.inst.args.tag = "RFormat"
    /\ result.inst.args.shamt = 31
    /\ result.inst.args.rs = 31

\* (a - b) mod 2^32
DiffMod32(a, b) ==
    LET borrow == IF Lo16(a) < Lo16(b) THEN 1 ELSE 0 IN
    WordOf((Hi16(a) - Hi16(b) - borrow + 65536) % 65536,
           (Lo16(a) - Lo16(b) + 65536) % 65536)

\* whether the difference of a and b, read as signed 32-bit numbers, is one
SignedDiffFits(a, b) ==
    LET h == SignedHi16(a) - SignedHi16(b) - (IF Lo16(a) < Lo16(b) THEN 1 ELSE 0)
    IN  h >= -32768 /\ h <= 32767

\* C22, as stated: the step of sub $11, $9, $10 returns a trap exactly when
\* the difference of $9 and $10 read as signed 32-bit numbers is not a signed
\* 32-bit number, and otherwise writes the difference modulo 2^32 to $11; the
\* step of subu $11, $9, $10 never traps and writes ($9 - $10) mod 2^32.
C22_SubSignedOverflowTrap ==
    [][ /\ ( (RunFetched /\ RunWord = enc_r(9, 10, 11, 0, 34))
             => ( /\ result'.status = "Ok"
                  /\ result'.trap <=> ~SignedDiffFits(registers[9], registers[10])
                  /\ ~result'.trap
                        => registers'[11] = DiffMod32(registers[9], registers[10]) ) )
        /\ ( (RunFetched /\ RunWord = enc_r(9, 10, 11, 0, 35))
             => ( /\ result'.status = "Ok"
                  /\ ~result'.trap
                  /\ registers'[11] = DiffMod32(registers[9], registers[10]) ) ) ]_vars

\* bit i of a word, bit 0 being the least significant
BitOf(w, i) == (w[4 - i \div 8] \div (2 ^ (i % 8))) % 2

\* the word whose bit i is b[i]
WordOfBits(b) ==
    [k \in 1..4 |->
        b[8 * (4 - k)] + 2 * b[8 * (4 - k) + 1] + 4 * b[8 * (4 - k) + 2]
        + 8 * b[8 * (4 - k) + 3] + 16 * b[8 * (4 - k) + 4] + 32 * b[8 * (4 - k) + 5]
        + 64 * b[8 * (4 - k) + 6] + 128 * b[8 * (4 - k) + 7]]

\* a shifted left by n, zeros entering at the right
ShiftLeft(a, n) == WordOfBits([i \in 0..31 |-> IF i >= n THEN BitOf(a, i - n) ELSE 0])

\* a shifted right by n, the bit fill entering at the left
ShiftRight(a, n, fill) ==
    WordOfBits([i \in 0..31 |-> IF i + n <= 31 THEN BitOf(a, i + n) ELSE fill])

\* the shift instructions: the word, its kind, whether the amount is $rs
ShiftWords ==
    { [word |-> enc_r(9, 10, 11, 0, 4), kind |-> "sll", variable |-> TRUE],
      [word |-> enc_r(9, 10, 11, 0, 6), kind |-> "srl", variable |-> TRUE],
      [word |-> enc_r(9, 10, 11, 0, 7), kind |-> "sra", variable |-> TRUE],
      [word |-> enc_r(0, 10, 11, 4, 0), kind |-> "sll", variable |-> FALSE],
      [word |-> enc_r(0, 10, 11, 4, 2), kind |-> "srl", variable |-> FALSE],
      [word |-> enc_r(0, 10, 11, 4, 3), kind |-> "sra", variable |-> FALSE] }

\* what the shift s of $rt = a by amount n gives
Shifted(s, a, n) ==
    CASE s.kind = "sll" -> ShiftLeft(a, n)
      [] s.kind = "srl" -> ShiftRight(a, n, 0)
      [] s.kind = "sra" -> ShiftRight(a, n, BitOf(a, 31))

\* C23, as stated: the step of sllv, srlv or srav completes normally and
\* writes $rt shifted by ($rs mod 32), for every value of $rs; the step of
\* sll, srl or sra shifts by the shamt field; right logical shifts fill with
\* zeros and right arithmetic shifts with the sign bit of $rt.
C23_ShiftAmountModulo32 ==
    [][ \A s \in ShiftWords :
          (RunFetched /\ RunWord = s.word)
          => ( /\ result'.status = "Ok"
               /\ ~result'.trap
               /\ registers'[11] =
                     Shifted(s, registers[10],
                             IF s.variable THEN registers[9][4] % 32
                             ELSE ShamtOf(s.word)) ) ]_vars

\* C24, as stated: the step of div or divu whose divisor register $rt holds 0
\* returns Ok without a trap, and HI and LO keep the values they had.
C24_DivisionByZeroHarmless ==
    [][ ( /\ RunFetched
          /\ RunWord \in {enc_r(9, 0, 0, 0, 26), enc_r(9, 0, 0, 0, 27)}
          /\ registers[RtOf(RunWord)] = Zero32 )
        => ( /\ result'.status = "Ok"
             /\ ~result'.trap
             /\ hi' = hi
             /\ lo' = lo ) ]_vars

\* the materialized lengths of the segments of mem
DataLens(mem) == [i \in 1..Len(mem.segments) |-> Len(mem.segments[i].data)]

\* the segment of the memory before the call that holds the call's address
Held == SegmentAt(memory, result'.args[1])

\* the offset of the call's address in that segment
HeldOffset == result'.args[1] - LowOf(memory.segments[Held])

\* C25: in a non-static segment a byte at or above the materialized length
\* reads as 0; get_byte, get_halfword and get_word change no segment; the
\* materialized lengths change in stores only; a set_byte that succeeds at an
\* offset at or beyond the length leaves the length at offset + 1 with zeros
\* in the newly materialized bytes below the offset, one below the length
\* leaves the length as it was, and either changes the written byte only.
C25_SparseBacking ==
    [][ /\ ( result'.op \in {"get_byte", "get_halfword", "get_word"} => memory' = memory )
        /\ ( result'.op \notin StoreOps => DataLens(memory') = DataLens(memory) )
        /\ ( ( /\ result'.op = "get_byte"
               /\ Held # 0
               /\ ~memory.segments[Held].is_static
               /\ HeldOffset >= Len(memory.segments[Held].data) )
             => ( result'.status = "Ok" /\ result'.value = Zero32 ) )
        /\ ( (result'.op = "set_byte" /\ result'.status = "Ok")
             => ( /\ Held # 0
                  /\ Len(memory'.segments[Held].data)
                        = IF HeldOffset >= Len(memory.segments[Held].data)
                          THEN HeldOffset + 1
                          ELSE Len(memory.segments[Held].data)
                  /\ \A k \in 1..Len(memory'.segments[Held].data) :
                        memory'.segments[Held].data[k]
                           = IF k = HeldOffset + 1 THEN result'.args[2]
                             ELSE IF k <= Len(memory.segments[Held].data)
                             THEN memory.segments[Held].data[k]
                             ELSE 0
                  /\ \A i \in 1..Len(memory.segments) :
                        i # Held => memory'.segments[i] = memory.segments[i] ) ) ]_vars

\* after set_byte at the last byte of heap had materialized its five bytes,
\* the byte at heap + 1, never written, was read as 0
C25_Witness ==
    /\ result.op = "get_byte"
    /\ result.args[1] = 33
    /\ result.status = "Ok"
    /\ result.value = Zero32
    /\ memory.segments[segment_by_name(memory, "heap")].data = <<0, 0, 0, 0, 171>>

\* the low 16 bits of a usize, and whether two of them agree above those
Low16(a) == a[7] * 256 + a[8]

SameHigh(a, b) == \A i \in 1..6 : a[i] = b[i]

\* a usize below another
UsizeLess(a, b) == \E i \in 1..8 : a[i] < b[i] /\ \A j \in 1..(i - 1) : a[j] = b[j]

\* the remainder of a usize by a u8: the sum of its bytes, each weighted by
\* the remainder of its power of 256
RemOf(a, m) ==
    LET p[k \in 0..7] == IF k = 0 THEN 1 % m ELSE (p[k - 1] * (256 % m)) % m
    IN  ( a[8] * p[0] + a[7] * p[1] + a[6] * p[2] + a[5] * p[3]
          + a[4] * p[4] + a[3] * p[5] + a[2] * p[6] + a[1] * p[7] ) % m

\* whether a multiple of m lies between a and the highest usize
MultipleAtOrAbove(a, m) ==
    \/ RemOf(a, m) = 0
    \/ ~SameHigh(a, usize_MAX)
    \/ m - RemOf(a, m) <= 65535 - Low16(a)

\* what C26 requires of the address r returned for addr
Aligned(addr, alignment, direction, r) ==
    /\ RemOf(r, alignment) = 0
    /\ SameHigh(r, addr)
    /\ IF direction = "Up"
       THEN ~UsizeLess(r, addr) /\ Low16(r) - Low16(addr) < alignment
       ELSE ~UsizeLess(addr, r) /\ Low16(addr) - Low16(r) < alignment
    /\ RemOf(addr, alignment) = 0 => r = addr

\* C26, amended: align_address(addr, alignment, direction) with
\* alignment >= 1 and, when direction is Up, a multiple of alignment between
\* addr and the highest usize, returns an address r with r % alignment = 0,
\* r >= addr and r - addr < alignment when direction is Up, r <= addr and
\* addr - r < alignment when direction is Down, and r = addr when addr is a
\* multiple of alignment; when direction is Up and there is no such multiple
\* the call panics or returns 0; the memory map is never changed.
C26_AlignAddress ==
    (result.op = "align_address" /\ result.args[2] >= 1) =>
        /\ memory = text_writable(Constructed).memory
        /\ IF result.args[3] = "Down" \/ MultipleAtOrAbove(result.args[1], result.args[2])
           THEN /\ result.status = "Ok"
                /\ Aligned(result.args[1], result.args[2], result.args[3], result.value)
           ELSE \/ result.status = "Panic"
                \/ result.status = "Ok" /\ result.value = usize_from(0)

\* 0xFFFFFFFFFFFFFFFB was aligned Up to 4, giving 0xFFFFFFFFFFFFFFFC
C26_Witness ==
    /\ result.op = "align_address"
    /\ result.args = << <<255, 255, 255, 255, 255, 255, 255, 251>>, 4, "Up" >>
    /\ result.status = "Ok"
    /\ result.value = <<255, 255, 255, 255, 255, 255, 255, 252>>

\* C26, as stated: for every addr and every alignment >= 1 the call returns
\* an address with those properties.
C26_AlignAddressEveryAddress ==
    (result.op = "align_address" /\ result.args[2] >= 1) =>
        /\ result.status = "Ok"
        /\ Aligned(result.args[1], result.args[2], result.args[3], result.value)

\* C27: whenever run_single_instruction returns Ok with a trap, the 32
\* registers, HI, LO and memory are what they were before the step and the
\* PC is its previous value plus 4.
C27_TrapHasNoEffect ==
    [][ (result'.op = "run_single_instruction" /\ result'.status = "Ok" /\ result'.trap)
        => ( /\ registers' = registers
             /\ hi' = hi
             /\ lo' = lo
             /\ memory' = memory
             /\ pc' = pc + 4 ) ]_vars

\* the step of add $11, $9, $10 with $9 = $10 = 0xFFFFFFFF trapped, and $11
\* does not hold the sum 0xFFFFFFFE
C27_Witness ==
    /\ result.op = "run_single_instruction"
    /\ result.status = "Ok"
    /\ result.trap
    /\ result.inst.base.name = "add"
    /\ result.inst.args.rd = 11
    /\ registers[9] = <<255, 255, 255, 255>>
    /\ registers[10] = <<255, 255, 255, 255>>
    /\ registers[11] = Zero32
    /\ pc = 8

\* C28, as stated: a set_halfword or set_word call that fails leaves every
\* byte of memory and every segment's materialized length as they were.
C28_StoresAllOrNothing ==
    [][ (result'.op \in {"set_halfword", "set_word"} /\ result'.status # "Ok")
        => memory' = memory ]_vars

\* decoding or lowering of the word w fails
NotLowered(w) ==
    \/ decode_instruction(w).status = "Err"
    \/ get_task(decode_instruction(w).inst).status = "Err"

\* C29: when the PC lies in no segment, run_single_instruction returns
\* IllegalMemoryAccess and leaves the PC, the registers, HI, LO and memory
\* unchanged; when the fetch succeeds and decoding or lowering fails, it
\* returns IllegalInstruction with the PC advanced by 4 and the registers, HI,
\* LO and memory unchanged; a step leaves the PC as it was or advanced by 4.
C29_EffectOrderOnFailure ==
    [][ result'.op = "run_single_instruction" =>
          \A fetch \in {WordAt(memory, pc)} :
              /\ SegmentAt(memory, pc) = 0
                    => ( /\ result'.status = "Err"
                         /\ result'.err = IllegalMemoryAccess
                         /\ pc' = pc
                         /\ registers' = registers /\ hi' = hi /\ lo' = lo
                         /\ memory' = memory )
              /\ (fetch.status = "Ok" /\ NotLowered(fetch.value))
                    => ( /\ result'.status = "Err"
                         /\ result'.err = IllegalInstruction
                         /\ pc' = pc + 4
                         /\ registers' = registers /\ hi' = hi /\ lo' = lo
                         /\ memory' = memory )
              /\ (result'.status = "Err" /\ result'.err = IllegalInstruction)
                    => ( fetch.status = "Ok" /\ pc' = pc + 4 )
              /\ pc' \in {pc, pc + 4} ]_vars

\* with the PC set to 38, an address in no segment, the step failed on its
\* fetch and the PC is still 38
C29_Witness ==
    /\ result.op = "run_single_instruction"
    /\ result.status = "Err"
    /\ result.err = IllegalMemoryAccess
    /\ pc = 38
    /\ SegmentAt(memory, pc) = 0
    /\ ncalls = 2

\* a turn of the main loop has just run a step, which returned
Stepped ==
    /\ result'.op = "main_step"
    /\ result'.args[1]
    /\ result'.status \in {"Ok", "Err"}

\* C30: in the main loop a step is run only while paused and halted are both
\* false; halted becomes true exactly when a step returns a null instruction,
\* a trap or a RuntimeError; once halted is true it stays true, the registers,
\* PC, HI, LO and memory stay as they are, and TogglePause no longer changes
\* paused.
C30_LoopHalting ==
    [][ /\ ( ( \/ result'.op = "main_step" /\ result'.args[1]
               \/ <<registers, memory, pc, hi, lo>>' # <<registers, memory, pc, hi, lo>> )
             => (~paused /\ ~halted) )
        /\ ( (halted' /\ ~halted)
             <=> ( /\ Stepped
                   /\ \/ result'.status = "Err"
                      \/ result'.trap
                      \/ is_null(result'.inst) ) )
        /\ ( halted
             => ( /\ halted'
                  /\ paused' = paused
                  /\ ~(result'.op = "main_step" /\ result'.args[1])
                  /\ UNCHANGED <<registers, memory, pc, hi, lo>> ) ) ]_vars

\* main's own program ran to the null word after its mult, fetched from text
\* at 16, which halted the loop with -2 in hi and lo and the PC at 20, still
\* in text, and a TogglePause that came afterwards left paused false
C30_Witness ==
    /\ halted
    /\ ~paused
    /\ result.op = "main_loop"
    /\ result.args = <<FALSE, "TogglePause">>
    /\ WordAt(memory, 4).value = MainProgram[1]
    /\ pc = 20
    /\ SegmentAt(memory, 16) = segment_by_name(memory, "text")
    /\ SegmentAt(memory, pc) = segment_by_name(memory, "text")
    /\ hi = <<255, 255, 255, 255>>
    /\ lo = <<255, 255, 255, 254>>

=============
